---- MODULE Spec2Model ----
(***************************************************************************)
(* Universal function dispatching and promotion                            *)
(* (numpy/core/src/umath/dispatching.c) for a binary ufunc                 *)
(* (nin = 2, nout = 1): the loop registry, the dispatch cache, the         *)
(* matcher resolve_implementation_info, the promoters and the driver       *)
(* promote_and_get_info_and_ufuncimpl / promote_and_get_ufuncimpl.         *)
(*                                                                         *)
(* Slots are numbered from 0 as in the source; At(t, i) reads slot i of a  *)
(* tuple.  NULL is the C null pointer, None is Py_None (the "any" slot of  *)
(* a registered DType tuple).                                              *)
(***************************************************************************)
EXTENDS Integers, Sequences, FiniteSets, TLC

VARIABLES loops, cache, ufunc, call

vars == <<loops, cache, ufunc, call>>

nin == 2
nargs == 3

NULL == "NULL"
None == "None"

At(t, i) == t[i + 1]

\* ------------------------------------------------------------------------
\* The DType hierarchy (external collaborator)
\* ------------------------------------------------------------------------
\* "i4sub" is a user DType derived from the concrete "i4"
ConcreteDTypes == {"i4", "f8", "b1", "O", "S", "i4sub"}
AbstractDTypes == {"Num", "Inex", "Err"}
DTypes == ConcreteDTypes \cup AbstractDTypes

NPY_DT_is_abstract(T) == T \in AbstractDTypes

NPY_DT_is_legacy(T) == T \in ConcreteDTypes

\* proper subclass pairs <<derived, cls>>
SubclassRel == {<<"i4", "Num">>, <<"f8", "Num">>, <<"f8", "Inex">>, <<"Inex", "Num">>,
                <<"i4sub", "i4">>, <<"i4sub", "Num">>}

\* PyObject_IsSubclass: 1, 0, or -1 when the class's __subclasscheck__ raises
\* (the abstract DType "Err").  With derived = NULL the call dereferences a
\* null pointer: the outcome is ub.isub (-2 stands for the process dying).
PyObject_IsSubclass(derived, cls, ub) ==
    IF derived = NULL THEN ub.isub
    ELSE IF cls = "Err" THEN -1
    ELSE IF derived = cls \/ <<derived, cls>> \in SubclassRel THEN 1
    ELSE 0

\* ------------------------------------------------------------------------
\* Registry entries: (DType tuple, ArrayMethod or promoter)
\* ------------------------------------------------------------------------
ArrayMethods == {"AddInt32Impl", "AddFloat64Impl", "BoolImpl", "ObjectImpl",
                 "LogicalImpl", "NumImpl", "InexImpl"}
Promoters == {"default_ufunc_promoter", "object_only_ufunc_promoter",
              "logical_ufunc_promoter", "cycle_promoter"}

Info(dtypes, meth) == [dtypes |-> dtypes, meth |-> meth]
NoInfo == Info(<<>>, NULL)

IsArrayMethod(info) == info.meth \in ArrayMethods

NoErr == "NoErr"
\* ------------------------------------------------------------------------
\* resolve_implementation_info: the matcher
\* ------------------------------------------------------------------------

\* The slot test without the NPY_DT_is_abstract check: the subclass test is
\* applied to concrete DTypes of the registered tuple too
MatchDTypeSubclassOfConcrete(op_dtypes, curr_dtypes, i, ub) ==
    LET given_dtype == At(op_dtypes, i)
        resolver_dtype == At(curr_dtypes, i)
    IN  IF given_dtype = NULL /\ i >= nin THEN "continue"
        ELSE IF given_dtype = NULL /\ At(curr_dtypes, 0) = At(curr_dtypes, 2)
            THEN "continue"
        ELSE IF resolver_dtype = None THEN "continue"
        ELSE IF given_dtype = resolver_dtype THEN "continue"
        ELSE LET subclass == PyObject_IsSubclass(given_dtype, resolver_dtype, ub)
             IN  IF subclass = -2 THEN "crash"
                 ELSE IF subclass < 0 THEN "error"
                 ELSE IF subclass = 0 THEN "nomatch"
                 ELSE "continue"

\* The slot test with the arguments of the subclass test exchanged
MatchDTypeReversedSubclass(op_dtypes, curr_dtypes, i, ub) ==
    LET given_dtype == At(op_dtypes, i)
        resolver_dtype == At(curr_dtypes, i)
    IN  IF given_dtype = NULL /\ i >= nin THEN "continue"
        ELSE IF given_dtype = NULL /\ At(curr_dtypes, 0) = At(curr_dtypes, 2)
            THEN "continue"
        ELSE IF resolver_dtype = None THEN "continue"
        ELSE IF given_dtype = resolver_dtype THEN "continue"
        ELSE IF ~NPY_DT_is_abstract(resolver_dtype) THEN "nomatch"
        ELSE LET subclass == IF given_dtype = NULL THEN ub.isub
                             ELSE PyObject_IsSubclass(resolver_dtype, given_dtype, ub)
             IN  IF subclass = -2 THEN "crash"
                 ELSE IF subclass < 0 THEN "error"
                 ELSE IF subclass = 0 THEN "nomatch"
                 ELSE "continue"

\* One slot of the matching loop: "continue" (the slot accepts), "nomatch"
\* (matches = NPY_FALSE; break), "error" (return -1) or "crash".
MatchDType(op_dtypes, curr_dtypes, i, ub) ==
    LET given_dtype == At(op_dtypes, i)
        resolver_dtype == At(curr_dtypes, i)
    IN  IF given_dtype = NULL /\ i >= nin THEN "continue"
        ELSE IF given_dtype = NULL /\ At(curr_dtypes, 0) = At(curr_dtypes, 2)
            THEN "continue"
        ELSE IF resolver_dtype = None THEN "continue"
        ELSE IF given_dtype = resolver_dtype THEN "continue"
        ELSE IF ~NPY_DT_is_abstract(resolver_dtype) THEN "nomatch"
        ELSE LET subclass == PyObject_IsSubclass(given_dtype, resolver_dtype, ub)
             IN  IF subclass = -2 THEN "crash"
                 ELSE IF subclass < 0 THEN "error"
                 ELSE IF subclass = 0 THEN "nomatch"
                 ELSE "continue"

\* The loop over the slots of one registry entry, from slot i on:
\* "match", "nomatch", "error" or "crash".
RECURSIVE MatchLoop(_, _, _, _)
MatchLoop(op_dtypes, curr_dtypes, i, ub) ==
    IF i >= nargs THEN "match"
    ELSE LET m == MatchDType(op_dtypes, curr_dtypes, i, ub)
         IN  IF m = "continue" THEN MatchLoop(op_dtypes, curr_dtypes, i + 1, ub)
             ELSE m

\* The slot comparison treating two abstract DTypes as equally good
SlotBestAbstractUndecided(prev_dtype, new_dtype, op_dtype) ==
    IF prev_dtype = None THEN 1
    ELSE IF new_dtype = None THEN 0
    ELSE IF ~NPY_DT_is_abstract(prev_dtype) /\ ~NPY_DT_is_abstract(new_dtype)
        THEN IF prev_dtype = op_dtype THEN 0
             ELSE IF new_dtype = op_dtype THEN 1
             ELSE -1
    ELSE IF ~NPY_DT_is_abstract(prev_dtype) THEN 0
    ELSE IF ~NPY_DT_is_abstract(new_dtype) THEN 1
    ELSE -1

\* Which of two matching entries one slot prefers: 0 the previous best,
\* 1 the new one, -1 neither, -3 for two abstract DTypes (NotImplementedError).
SlotBest(prev_dtype, new_dtype, op_dtype) ==
    IF prev_dtype = None THEN 1
    ELSE IF new_dtype = None THEN 0
    ELSE IF ~NPY_DT_is_abstract(prev_dtype) /\ ~NPY_DT_is_abstract(new_dtype)
        THEN IF prev_dtype = op_dtype THEN 0
             ELSE IF new_dtype = op_dtype THEN 1
             ELSE -1
    ELSE IF ~NPY_DT_is_abstract(prev_dtype) THEN 0
    ELSE IF ~NPY_DT_is_abstract(new_dtype) THEN 1
    ELSE -3

\* The comparison loop of a new match against the best one so far, from
\* slot i on with the running current_best.
RECURSIVE CompareLoops(_, _, _, _, _)
CompareLoops(best_dtypes, curr_dtypes, op_dtypes, i, current_best) ==
    IF i >= nargs THEN current_best
    ELSE IF i = nin /\ current_best # -1 THEN current_best
    ELSE LET prev_dtype == At(best_dtypes, i)
             new_dtype == At(curr_dtypes, i)
         IN  IF prev_dtype = new_dtype
                 THEN CompareLoops(best_dtypes, curr_dtypes, op_dtypes, i + 1, current_best)
             ELSE IF At(op_dtypes, i) = NULL
                 THEN CompareLoops(best_dtypes, curr_dtypes, op_dtypes, i + 1, current_best)
             ELSE LET best == SlotBest(prev_dtype, new_dtype, At(op_dtypes, i))
                  IN  IF best = -3 THEN -3
                      ELSE IF best = -1
                          THEN CompareLoops(best_dtypes, curr_dtypes, op_dtypes, i + 1, current_best)
                      ELSE IF current_best # -1 /\ current_best # best THEN -1
                      ELSE CompareLoops(best_dtypes, curr_dtypes, op_dtypes, i + 1, best)

MatcherResult(rc, info, err, retry) ==
    [rc |-> rc, info |-> info, err |-> err, retry |-> retry]

\* The scan over ufunc->_loops from res_idx on, with the best match so far.
\* rc is the return value, info is *out_info, err the exception it sets and
\* retry tells whether the result comes from the promoters-only scan.
RECURSIVE ScanLoops(_, _, _, _, _, _)

\* A tie reported at once, without the retry
OnTieNoRetry(ls, op_dtypes, only_promoters, ub) ==
    MatcherResult(0, NoInfo, "RuntimeError", only_promoters)

\* current_best == -1 after the comparison: the retry with promoters only,
\* or the RuntimeError when this scan is the retry already.
OnTie(ls, op_dtypes, only_promoters, ub) ==
    IF ~only_promoters THEN ScanLoops(ls, op_dtypes, TRUE, 0, NoInfo, ub)
    ELSE MatcherResult(0, NoInfo, "RuntimeError", TRUE)

\* The scan keeping its first match whatever the comparison prefers
ScanLoopsKeepsFirstMatch(ls, op_dtypes, only_promoters, res_idx, best_resolver_info, ub) ==
    IF res_idx >= Len(ls)
        THEN MatcherResult(0, best_resolver_info, NoErr, only_promoters)
    ELSE LET resolver_info == ls[res_idx + 1]
             curr_dtypes == resolver_info.dtypes
             skip == ScanLoops(ls, op_dtypes, only_promoters, res_idx + 1,
                               best_resolver_info, ub)
             take == ScanLoops(ls, op_dtypes, only_promoters, res_idx + 1,
                               resolver_info, ub)
         IN  IF only_promoters /\ IsArrayMethod(resolver_info) THEN skip
             ELSE LET m == MatchLoop(op_dtypes, curr_dtypes, 0, ub)
                  IN  IF m = "crash"
                          THEN MatcherResult(-1, NoInfo, "SIGSEGV", only_promoters)
                      ELSE IF m = "error"
                          THEN MatcherResult(-1, NoInfo, "HierarchyError", only_promoters)
                      ELSE IF m = "nomatch" THEN skip
                      ELSE IF best_resolver_info = NoInfo THEN take
                      ELSE LET current_best == CompareLoops(best_resolver_info.dtypes,
                                                   curr_dtypes, op_dtypes, 0, -1)
                           IN  IF current_best = -3
                                   THEN MatcherResult(-1, NoInfo, "NotImplementedError",
                                                      only_promoters)
                               ELSE IF current_best = -1
                                   THEN OnTie(ls, op_dtypes, only_promoters, ub)
                               ELSE skip

\* The scan looking at the ArrayMethods in the retry too
ScanLoopsRescansArrayMethods(ls, op_dtypes, only_promoters, res_idx, best_resolver_info, ub) ==
    IF res_idx >= Len(ls)
        THEN MatcherResult(0, best_resolver_info, NoErr, only_promoters)
    ELSE LET resolver_info == ls[res_idx + 1]
             curr_dtypes == resolver_info.dtypes
             skip == ScanLoops(ls, op_dtypes, only_promoters, res_idx + 1,
                               best_resolver_info, ub)
             take == ScanLoops(ls, op_dtypes, only_promoters, res_idx + 1,
                               resolver_info, ub)
         IN  IF FALSE THEN skip
             ELSE LET m == MatchLoop(op_dtypes, curr_dtypes, 0, ub)
                  IN  IF m = "crash"
                          THEN MatcherResult(-1, NoInfo, "SIGSEGV", only_promoters)
                      ELSE IF m = "error"
                          THEN MatcherResult(-1, NoInfo, "HierarchyError", only_promoters)
                      ELSE IF m = "nomatch" THEN skip
                      ELSE IF best_resolver_info = NoInfo THEN take
                      ELSE LET current_best == CompareLoops(best_resolver_info.dtypes,
                                                   curr_dtypes, op_dtypes, 0, -1)
                           IN  IF current_best = -3
                                   THEN MatcherResult(-1, NoInfo, "NotImplementedError",
                                                      only_promoters)
                               ELSE IF current_best = -1
                                   THEN OnTie(ls, op_dtypes, only_promoters, ub)
                               ELSE IF current_best = 0 THEN skip
                               ELSE take

ScanLoops(ls, op_dtypes, only_promoters, res_idx, best_resolver_info, ub) ==
    IF res_idx >= Len(ls)
        THEN MatcherResult(0, best_resolver_info, NoErr, only_promoters)
    ELSE LET resolver_info == ls[res_idx + 1]
             curr_dtypes == resolver_info.dtypes
             skip == ScanLoops(ls, op_dtypes, only_promoters, res_idx + 1,
                               best_resolver_info, ub)
             take == ScanLoops(ls, op_dtypes, only_promoters, res_idx + 1,
                               resolver_info, ub)
         IN  IF only_promoters /\ IsArrayMethod(resolver_info) THEN skip
             ELSE LET m == MatchLoop(op_dtypes, curr_dtypes, 0, ub)
                  IN  IF m = "crash"
                          THEN MatcherResult(-1, NoInfo, "SIGSEGV", only_promoters)
                      ELSE IF m = "error"
                          THEN MatcherResult(-1, NoInfo, "HierarchyError", only_promoters)
                      ELSE IF m = "nomatch" THEN skip
                      ELSE IF best_resolver_info = NoInfo THEN take
                      ELSE LET current_best == CompareLoops(best_resolver_info.dtypes,
                                                   curr_dtypes, op_dtypes, 0, -1)
                           IN  IF current_best = -3
                                   THEN MatcherResult(-1, NoInfo, "NotImplementedError",
                                                      only_promoters)
                               ELSE IF current_best = -1
                                   THEN OnTie(ls, op_dtypes, only_promoters, ub)
                               ELSE IF current_best = 0 THEN skip
                               ELSE take

resolve_implementation_info(ls, op_dtypes, only_promoters, ub) ==
    ScanLoops(ls, op_dtypes, only_promoters, 0, NoInfo, ub)
\* ------------------------------------------------------------------------
\* Promoters
\* ------------------------------------------------------------------------
PromoterResult(rc, new_op_dtypes) == [rc |-> rc, new_op_dtypes |-> new_op_dtypes]

\* PyArray_PromoteDTypeSequence on two DTypes (external): the common DType,
\* or NULL (a TypeError) when there is none.
PromotionRank(T) == CASE T = "b1" -> 0 [] T = "i4" -> 1 [] T = "f8" -> 2 [] OTHER -> 3

PyArray_PromoteDTypeSequence(a, b) ==
    IF a = b THEN a
    ELSE IF {a, b} \subseteq {"b1", "i4", "f8", "O"}
        THEN IF PromotionRank(a) >= PromotionRank(b) THEN a ELSE b
    ELSE NULL

\* The default promoter writing the common DType to the output slots too
default_ufunc_promoter_common_output(uf, op_dtypes, signature, ub) ==
    IF /\ uf.type_resolver = "SimpleBinaryComparison"
       /\ At(signature, 0) = NULL /\ At(signature, 1) = NULL
       /\ At(signature, 2) # NULL /\ At(signature, 2) # "b1"
        THEN PromoterResult(-1, <<>>)
    ELSE IF At(op_dtypes, 0) = NULL
        THEN PromoterResult(0, <<At(op_dtypes, 1), At(op_dtypes, 1), At(op_dtypes, 1)>>)
    ELSE LET fromsig == At(signature, 2)
             common == IF fromsig # NULL THEN fromsig
                       ELSE PyArray_PromoteDTypeSequence(At(op_dtypes, 0), At(op_dtypes, 1))
         IN  IF common = NULL THEN PromoterResult(-1, <<>>)
             ELSE PromoterResult(0,
                    [i \in 1..nargs |->
                        IF signature[i] # NULL THEN signature[i] ELSE common])

\* The default promoter keeping the slots the signature fixes in the
\* reduction branch too
default_ufunc_promoter_reduce_keeps_fixed(uf, op_dtypes, signature, ub) ==
    IF /\ uf.type_resolver = "SimpleBinaryComparison"
       /\ At(signature, 0) = NULL /\ At(signature, 1) = NULL
       /\ At(signature, 2) # NULL /\ At(signature, 2) # "b1"
        THEN PromoterResult(-1, <<>>)
    ELSE IF At(op_dtypes, 0) = NULL
        THEN PromoterResult(0, [i \in 1..nargs |->
                                 IF signature[i] # NULL THEN signature[i]
                                 ELSE At(op_dtypes, 1)])
    ELSE LET fromsig == At(signature, 2)
             common == IF fromsig # NULL THEN fromsig
                       ELSE PyArray_PromoteDTypeSequence(At(op_dtypes, 0), At(op_dtypes, 1))
         IN  IF common = NULL THEN PromoterResult(-1, <<>>)
             ELSE PromoterResult(0,
                    [i \in 1..nargs |->
                        IF i - 1 >= nin THEN op_dtypes[i]
                        ELSE IF signature[i] # NULL THEN signature[i]
                        ELSE common])

default_ufunc_promoter(uf, op_dtypes, signature, ub) ==
    IF /\ uf.type_resolver = "SimpleBinaryComparison"
       /\ At(signature, 0) = NULL /\ At(signature, 1) = NULL
       /\ At(signature, 2) # NULL /\ At(signature, 2) # "b1"
        THEN PromoterResult(-1, <<>>)
    ELSE IF At(op_dtypes, 0) = NULL
        THEN PromoterResult(0, <<At(op_dtypes, 1), At(op_dtypes, 1), At(op_dtypes, 1)>>)
    ELSE LET fromsig == At(signature, 2)
             common == IF fromsig # NULL THEN fromsig
                       ELSE PyArray_PromoteDTypeSequence(At(op_dtypes, 0), At(op_dtypes, 1))
         IN  IF common = NULL THEN PromoterResult(-1, <<>>)
             ELSE PromoterResult(0,
                    [i \in 1..nargs |->
                        IF i - 1 >= nin THEN op_dtypes[i]
                        ELSE IF signature[i] # NULL THEN signature[i]
                        ELSE common])

\* Slots fixed by the signature are not written: they keep whatever the
\* caller's uninitialised array holds (ub.garbage).
object_only_ufunc_promoter(uf, op_dtypes, signature, ub) ==
    PromoterResult(0, [i \in 1..nargs |->
                        IF signature[i] = NULL THEN "O" ELSE ub.garbage])

\* The logical promoter looking at the signature's output, not at the
\* output operand DType, before it turns to the object DType
logical_ufunc_promoter_signature_output(uf, op_dtypes, signature, ub) ==
    IF /\ At(signature, 0) = NULL /\ At(signature, 1) = NULL
       /\ At(signature, 2) # NULL /\ At(signature, 2) # "b1"
        THEN PromoterResult(-1, <<>>)
    ELSE IF (At(op_dtypes, 0) # NULL /\ At(op_dtypes, 0) = "S") \/ At(op_dtypes, 1) = "S"
        THEN PromoterResult(-1, <<>>)
    ELSE LET item == [i \in 1..3 |-> IF signature[i] # NULL THEN signature[i] ELSE "b1"]
             force_object == \E i \in 1..3 :
                                \/ signature[i] = "O"
                                \/ (signature[i] = NULL /\ op_dtypes[i] = "O")
         IN  IF ~force_object \/ (At(signature, 2) # NULL /\ At(signature, 2) # "O")
                 THEN PromoterResult(0, item)
             ELSE PromoterResult(0, [i \in 1..3 |->
                                      IF signature[i] # NULL THEN item[i] ELSE "O"])

logical_ufunc_promoter(uf, op_dtypes, signature, ub) ==
    IF /\ At(signature, 0) = NULL /\ At(signature, 1) = NULL
       /\ At(signature, 2) # NULL /\ At(signature, 2) # "b1"
        THEN PromoterResult(-1, <<>>)
    ELSE IF (At(op_dtypes, 0) # NULL /\ At(op_dtypes, 0) = "S") \/ At(op_dtypes, 1) = "S"
        THEN PromoterResult(-1, <<>>)
    ELSE LET item == [i \in 1..3 |-> IF signature[i] # NULL THEN signature[i] ELSE "b1"]
             force_object == \E i \in 1..3 :
                                \/ signature[i] = "O"
                                \/ (signature[i] = NULL /\ op_dtypes[i] = "O")
         IN  IF ~force_object \/ (At(op_dtypes, 2) # NULL /\ At(op_dtypes, 2) # "O")
                 THEN PromoterResult(0, item)
             ELSE PromoterResult(0, [i \in 1..3 |->
                                      IF signature[i] # NULL THEN item[i] ELSE "O"])

\* A promoter supplied by the registering party (a capsule holding a
\* function pointer): it keeps the slots fixed by the signature and moves
\* every other input DType one step along i4 -> f8 -> b1 -> i4.
CycleNext(T) == CASE T = "i4" -> "f8" [] T = "f8" -> "b1" [] T = "b1" -> "i4" [] OTHER -> T

cycle_promoter(uf, op_dtypes, signature, ub) ==
    PromoterResult(0, [i \in 1..nargs |->
                        IF signature[i] # NULL THEN signature[i]
                        ELSE IF i - 1 >= nin THEN op_dtypes[i]
                        ELSE CycleNext(op_dtypes[i])])

\* promoter_function(ufunc, op_dtypes, signature, new_op_dtypes)
promoter_function(promoter, uf, op_dtypes, signature, ub) ==
    CASE promoter = "default_ufunc_promoter" ->
            default_ufunc_promoter(uf, op_dtypes, signature, ub)
      [] promoter = "object_only_ufunc_promoter" ->
            object_only_ufunc_promoter(uf, op_dtypes, signature, ub)
      [] promoter = "logical_ufunc_promoter" ->
            logical_ufunc_promoter(uf, op_dtypes, signature, ub)
      [] OTHER -> cycle_promoter(uf, op_dtypes, signature, ub)

\* ------------------------------------------------------------------------
\* The legacy type resolver (external collaborator)
\* ------------------------------------------------------------------------
LegacyCommon(ops) ==
    IF At(ops, 0) = NULL THEN At(ops, 1)
    ELSE PyArray_PromoteDTypeSequence(At(ops, 0), At(ops, 1))

\* ufunc->type_resolver(ufunc, casting, ops, type_tuple, out_descrs).
\* "Default" honours the type tuple.  "SimpleBinaryComparison" produces a
\* boolean output and ignores a type tuple that fixes the output alone
\* (the deprecated dtype=); "Datetime" ignores the type tuple altogether.
type_resolver(uf, ops, signature) ==
    LET common == LegacyCommon(ops)
        honoured == [i \in 1..nargs |->
                        IF signature[i] # NULL THEN signature[i] ELSE common]
    IN  IF common = NULL \/ NPY_DT_is_abstract(common) THEN [rc |-> -1, out |-> <<>>]
        ELSE IF uf.type_resolver = "SimpleBinaryComparison"
            THEN IF At(signature, 0) = NULL /\ At(signature, 1) = NULL
                     THEN [rc |-> 0, out |-> <<common, common, "b1">>]
                 ELSE [rc |-> 0, out |-> honoured]
        ELSE IF uf.type_resolver = "Datetime"
            THEN [rc |-> 0, out |-> <<common, common, common>>]
        ELSE [rc |-> 0, out |-> honoured]

\* _make_new_typetup: -1 when the signature holds a DType the legacy
\* resolvers cannot deal with.
make_new_typetup(signature) ==
    IF \E i \in 1..nargs : signature[i] # NULL
            /\ (~NPY_DT_is_legacy(signature[i]) \/ NPY_DT_is_abstract(signature[i]))
        THEN -1 ELSE 0

LegacyResult(rc, operation_DTypes, signature, cacheable, err) ==
    [rc |-> rc, operation_DTypes |-> operation_DTypes, signature |-> signature,
     cacheable |-> cacheable, err |-> err]

legacy_promote_using_legacy_type_resolver(uf, ops, signature, err) ==
    IF make_new_typetup(signature) < 0
        THEN LegacyResult(-1, <<>>, signature, TRUE, "RuntimeError")
    ELSE LET r == type_resolver(uf, ops, signature)
         IN  IF r.rc < 0 THEN LegacyResult(-1, <<>>, signature, TRUE, "TypeError")
             ELSE LegacyResult(0, r.out,
                    [i \in 1..nargs |->
                        IF signature[i] # NULL /\ signature[i] # r.out[i]
                            THEN r.out[i] ELSE signature[i]],
                    \A i \in 1..nargs : ~(signature[i] # NULL /\ signature[i] # r.out[i]),
                    err)
\* ------------------------------------------------------------------------
\* The dispatch cache (npy_hashtable)
\* ------------------------------------------------------------------------
PyArrayIdentityHash_GetItem(tb, key) ==
    IF key \in DOMAIN tb THEN tb[key] ELSE NoInfo

\* A NULL value clears the key; any other value is stored under it.
PyArrayIdentityHash_SetItem(tb, key, value) ==
    IF value = NoInfo
        THEN [k \in DOMAIN tb \ {key} |-> tb[k]]
    ELSE [k \in DOMAIN tb \cup {key} |-> IF k = key THEN value ELSE tb[k]]

\* ------------------------------------------------------------------------
\* The driver
\* ------------------------------------------------------------------------
RecursionLimit == 3

\* One step of a resolution, as recorded in the call's trace.
Event(ev, key, info, new, flag, depth) ==
    [ev |-> ev, key |-> key, info |-> info, new |-> new, flag |-> flag,
     depth |-> depth, err |-> NoErr]

\* The state a resolution threads through its calls: the cache, the caller's
\* signature array (the legacy path writes to it), the pending exception
\* and the trace.
Log(st, e) == [st EXCEPT !.trace = Append(@, e)]

SetErr(st, err) == IF err = NoErr THEN st ELSE [st EXCEPT !.err = err]

\* The event's flag tells whether the key was in the cache already.
CacheSet(st, key, info, depth) ==
    Log([st EXCEPT !.cache = PyArrayIdentityHash_SetItem(@, key, info)],
        Event("setitem", key, info, <<>>, key \in DOMAIN st.cache, depth))

Ret(info, st) == [info |-> info, st |-> st]

RECURSIVE promote_and_get_info_and_ufuncimpl(_, _, _, _, _, _, _, _)

\* The recursion refused at the limit without an exception being set
RecurseAfterPromoterNoError(ls, uf, ops, op_dtypes, depth, p, st1, ub) ==
    IF p.rc < 0 THEN Ret(NoInfo, st1)
    ELSE IF p.new_op_dtypes = op_dtypes THEN Ret(NoInfo, st1)
    ELSE IF depth >= RecursionLimit
        THEN Ret(NoInfo, Log(st1, Event("recursion_limit", op_dtypes, NoInfo, <<>>,
                                        FALSE, depth)))
    ELSE promote_and_get_info_and_ufuncimpl(ls, uf, ops, p.new_op_dtypes,
                                            FALSE, depth + 1, st1, ub)

\* The recursion after a promoter with legacy promotion still allowed
RecurseAfterPromoterAllowsLegacy(ls, uf, ops, op_dtypes, depth, p, st1, ub) ==
    IF p.rc < 0 THEN Ret(NoInfo, st1)
    ELSE IF p.new_op_dtypes = op_dtypes THEN Ret(NoInfo, st1)
    ELSE IF depth >= RecursionLimit
        THEN Ret(NoInfo, Log(SetErr(st1, "RecursionError"),
                             Event("recursion_limit", op_dtypes, NoInfo, <<>>, FALSE, depth)))
    ELSE promote_and_get_info_and_ufuncimpl(ls, uf, ops, p.new_op_dtypes,
                                            TRUE, depth + 1, st1, ub)

\* The part of call_promoter_and_recurse after the promoter returned p
RecurseAfterPromoter(ls, uf, ops, op_dtypes, depth, p, st1, ub) ==
    IF p.rc < 0 THEN Ret(NoInfo, st1)
    ELSE IF p.new_op_dtypes = op_dtypes THEN Ret(NoInfo, st1)
    ELSE IF depth >= RecursionLimit
        THEN Ret(NoInfo, Log(SetErr(st1, "RecursionError"),
                             Event("recursion_limit", op_dtypes, NoInfo, <<>>, FALSE, depth)))
    ELSE promote_and_get_info_and_ufuncimpl(ls, uf, ops, p.new_op_dtypes,
                                            FALSE, depth + 1, st1, ub)

PromoterEvent(promoter, op_dtypes, p, depth) ==
    Event("promoter", op_dtypes, Info(<<>>, promoter), p.new_op_dtypes, p.rc >= 0, depth)

call_promoter_and_recurse(ls, uf, promoter, ops, op_dtypes, depth, st, ub) ==
    LET p == promoter_function(promoter, uf, op_dtypes, st.signature, ub)
    IN  RecurseAfterPromoter(ls, uf, ops, op_dtypes, depth, p,
                             Log(st, PromoterEvent(promoter, op_dtypes, p, depth)), ub)

\* The end of the legacy fallback writing to the cache whatever cacheable is
CacheLegacyAlways(op_dtypes, cacheable, r, depth) ==
    IF r.st.err = "SIGSEGV" THEN r
    ELSE Ret(r.info, CacheSet(r.st, op_dtypes, r.info, depth))

\* The end of the legacy fallback emptying the cache when the recursive call
\* found nothing
CacheLegacyDropsCacheOnFailure(op_dtypes, cacheable, r, depth) ==
    IF r.st.err = "SIGSEGV" THEN r
    ELSE IF r.info = NoInfo THEN Ret(r.info, [r.st EXCEPT !.cache = [k \in {} |-> NoInfo]])
    ELSE IF cacheable THEN Ret(r.info, CacheSet(r.st, op_dtypes, r.info, depth))
    ELSE r

\* The end of the legacy fallback, r being what the recursive call returned
CacheLegacy(op_dtypes, cacheable, r, depth) ==
    IF r.st.err = "SIGSEGV" THEN r
    ELSE IF cacheable THEN Ret(r.info, CacheSet(r.st, op_dtypes, r.info, depth))
    ELSE r

LegacyEvent(op_dtypes, l, depth) ==
    Event("legacy", op_dtypes, NoInfo, l.operation_DTypes, l.cacheable, depth)

\* The legacy fallback once the legacy resolver returned l
RecurseAfterLegacy(ls, uf, ops, op_dtypes, depth, l, st1, ub) ==
    IF l.rc < 0 THEN Ret(NoInfo, st1)
    ELSE CacheLegacy(op_dtypes, l.cacheable,
            promote_and_get_info_and_ufuncimpl(ls, uf, ops, l.operation_DTypes,
                                               FALSE, depth, st1, ub),
            depth)

\* The legacy fallback at the end of promote_and_get_info_and_ufuncimpl
LegacyFallback(ls, uf, ops, op_dtypes, allow_legacy_promotion, depth, st, ub) ==
    IF ~allow_legacy_promotion \/ uf.type_resolver = NULL \/ uf.ntypes = 0
        THEN Ret(NoInfo, st)
    ELSE LET l == legacy_promote_using_legacy_type_resolver(uf, ops, st.signature, st.err)
         IN  RecurseAfterLegacy(ls, uf, ops, op_dtypes, depth, l,
                Log([st EXCEPT !.signature = l.signature, !.err = l.err],
                    LegacyEvent(op_dtypes, l, depth)), ub)

\* What the driver does with r, the result of call_promoter_and_recurse
AfterPromoter(ls, uf, ops, op_dtypes, allow_legacy_promotion, depth, r, ub) ==
    IF r.info = NoInfo /\ r.st.err # NoErr THEN r
    ELSE IF r.info # NoInfo THEN Ret(r.info, CacheSet(r.st, op_dtypes, r.info, depth))
    ELSE LegacyFallback(ls, uf, ops, op_dtypes, allow_legacy_promotion, depth, r.st, ub)

\* The promoter step and the legacy fallback, for info a promoter or NULL:
\* with no promoter to call the driver goes on to the legacy fallback,
\* whether an exception is pending or not
AfterLookup(ls, uf, ops, op_dtypes, allow_legacy_promotion, depth, info, st, ub) ==
    IF info # NoInfo
        THEN AfterPromoter(ls, uf, ops, op_dtypes, allow_legacy_promotion, depth,
                call_promoter_and_recurse(ls, uf, info.meth, ops, op_dtypes, depth, st, ub),
                ub)
    ELSE LegacyFallback(ls, uf, ops, op_dtypes, allow_legacy_promotion, depth, st, ub)

\* The driver caching whatever the matcher selected, a promoter too
AfterMatchCachesPromoter(ls, uf, ops, op_dtypes, allow_legacy_promotion, depth, m, st1, ub) ==
    IF m.rc < 0 THEN Ret(NoInfo, st1)
    ELSE IF m.info # NoInfo /\ IsArrayMethod(m.info)
        THEN Ret(m.info, CacheSet(st1, op_dtypes, m.info, depth))
    ELSE AfterLookup(ls, uf, ops, op_dtypes, allow_legacy_promotion, depth, m.info,
                     IF m.info # NoInfo THEN CacheSet(st1, op_dtypes, m.info, depth)
                     ELSE st1, ub)

\* The driver caching a direct match only in the outermost call
AfterMatchCachesOutermostOnly(ls, uf, ops, op_dtypes, allow_legacy_promotion, depth, m, st1, ub) ==
    IF m.rc < 0 THEN Ret(NoInfo, st1)
    ELSE IF m.info # NoInfo /\ IsArrayMethod(m.info)
        THEN Ret(m.info, IF depth = 0 THEN CacheSet(st1, op_dtypes, m.info, depth) ELSE st1)
    ELSE AfterLookup(ls, uf, ops, op_dtypes, allow_legacy_promotion, depth,
                     m.info, st1, ub)

\* The driver going on to the promoter and the legacy fallback after a
\* matcher error
AfterMatchIgnoresError(ls, uf, ops, op_dtypes, allow_legacy_promotion, depth, m, st1, ub) ==
    IF m.info # NoInfo /\ IsArrayMethod(m.info)
        THEN Ret(m.info, CacheSet(st1, op_dtypes, m.info, depth))
    ELSE AfterLookup(ls, uf, ops, op_dtypes, allow_legacy_promotion, depth,
                     m.info, st1, ub)

\* The driver after a cache miss, m being the matcher's result
AfterMatch(ls, uf, ops, op_dtypes, allow_legacy_promotion, depth, m, st1, ub) ==
    IF m.rc < 0 THEN Ret(NoInfo, st1)
    ELSE IF m.info # NoInfo /\ IsArrayMethod(m.info)
        THEN Ret(m.info, CacheSet(st1, op_dtypes, m.info, depth))
    ELSE AfterLookup(ls, uf, ops, op_dtypes, allow_legacy_promotion, depth,
                     m.info, st1, ub)

MatchEvent(op_dtypes, m, depth) ==
    [Event("match", op_dtypes, m.info, <<>>, m.retry, depth) EXCEPT !.err = m.err]

\* The driver once the cache returned info
AfterGetItem(ls, uf, ops, op_dtypes, allow_legacy_promotion, depth, info, st, ub) ==
    IF info # NoInfo /\ IsArrayMethod(info)
        THEN Ret(info, Log(st, Event("hit", op_dtypes, info, <<>>, FALSE, depth)))
    ELSE LET m == IF info = NoInfo
                      THEN resolve_implementation_info(ls, op_dtypes, FALSE, ub)
                  ELSE MatcherResult(0, info, NoErr, FALSE)
         IN  AfterMatch(ls, uf, ops, op_dtypes, allow_legacy_promotion, depth, m,
                 IF info = NoInfo THEN Log(SetErr(st, m.err), MatchEvent(op_dtypes, m, depth))
                 ELSE st, ub)

promote_and_get_info_and_ufuncimpl(ls, uf, ops, op_dtypes, allow_legacy_promotion, depth, st, ub) ==
    AfterGetItem(ls, uf, ops, op_dtypes, allow_legacy_promotion, depth,
                 PyArrayIdentityHash_GetItem(st.cache, op_dtypes), st, ub)

\* The result of a top-level call: the ArrayMethod (NULL on failure), the
\* caller's signature and op_dtypes arrays as the call leaves them, the
\* pending exception, the cache, the trace, and whether the assertion on a
\* fixed signature slot would have failed.
Result(method, info, signature, op_dtypes, err, tb, trace, assert_failed) ==
    [method |-> method, info |-> info, signature |-> signature,
     op_dtypes |-> op_dtypes, err |-> err, cache |-> tb, trace |-> trace,
     assert_failed |-> assert_failed]

\* The overlay of the signature on the operand DTypes
MixSignature(signature, op_dtypes) ==
    [i \in 1..nargs |->
        IF signature[i] # NULL THEN signature[i]
        ELSE IF i - 1 >= nin THEN NULL
        ELSE op_dtypes[i]]

\* The final fill-in of the signature from the loop's DTypes
FillSignature(signature, all_dtypes) ==
    [i \in 1..nargs |-> IF signature[i] = NULL THEN all_dtypes[i] ELSE signature[i]]

NeedsReduceFix(ensure_reduce_compatible, r) ==
    /\ r.info # NoInfo
    /\ ensure_reduce_compatible
    /\ At(r.st.signature, 0) = NULL
    /\ At(r.info.dtypes, 0) # At(r.info.dtypes, 2)

\* The end of promote_and_get_ufuncimpl returning NULL without raising the
\* "no loop found" error
FinishWithoutNoLoopError(dts, r) ==
    IF r.info = NoInfo
        THEN Result(NULL, NoInfo, r.st.signature, dts, r.st.err,
                    r.st.cache, r.st.trace, FALSE)
    ELSE Result(r.info.meth, r.info, FillSignature(r.st.signature, r.info.dtypes),
                dts, r.st.err, r.st.cache, r.st.trace,
                \E i \in 1..nargs : /\ r.st.signature[i] # NULL
                                    /\ r.st.signature[i] # r.info.dtypes[i])

\* The end of promote_and_get_ufuncimpl when it does not call itself again
Finish(dts, r) ==
    IF r.info = NoInfo
        THEN Result(NULL, NoInfo, r.st.signature, dts,
                    IF r.st.err = NoErr THEN "NoLoopFound" ELSE r.st.err,
                    r.st.cache, r.st.trace, FALSE)
    ELSE Result(r.info.meth, r.info, FillSignature(r.st.signature, r.info.dtypes),
                dts, r.st.err, r.st.cache, r.st.trace,
                \E i \in 1..nargs : /\ r.st.signature[i] # NULL
                                    /\ r.st.signature[i] # r.info.dtypes[i])

\* The start of promote_and_get_ufuncimpl up to the driver's return: the
\* overlay, the up-front legacy promotion and the driver.  rc < 0 when the
\* up-front legacy promotion failed.
Lookup(ls, uf, ops, dts, allow_legacy_promotion, force_legacy_promotion, l, st0, ub) ==
    IF force_legacy_promotion /\ l.rc < 0
        THEN [rc |-> -1, dts |-> dts,
              r |-> Ret(NoInfo, [st0 EXCEPT !.signature = l.signature, !.err = l.err])]
    ELSE LET dts1 == IF force_legacy_promotion THEN l.operation_DTypes ELSE dts
             st1 == IF force_legacy_promotion
                        THEN Log([st0 EXCEPT !.signature = l.signature],
                                 Event("force_legacy", dts, NoInfo, l.operation_DTypes,
                                       l.cacheable, 0))
                    ELSE st0
         IN  [rc |-> 0, dts |-> dts1,
              r |-> promote_and_get_info_and_ufuncimpl(ls, uf, ops, dts1,
                        allow_legacy_promotion, 0, st1, ub)]

FirstPass(ls, uf, ops, signature, op_dtypes, force_legacy_promotion, allow_legacy_promotion, tb, trace, err, ub) ==
    Lookup(ls, uf, ops, MixSignature(signature, op_dtypes), allow_legacy_promotion,
           force_legacy_promotion,
           legacy_promote_using_legacy_type_resolver(uf, ops, signature, err),
           [cache |-> tb, signature |-> signature, err |-> err, trace |-> trace], ub)

\* The second pass of promote_and_get_ufuncimpl (its call of itself with
\* ensure_reduce_compatible = NPY_FALSE), f being the first pass
SecondPass(ls, uf, ops, force_legacy_promotion, allow_legacy_promotion, f, ub) ==
    FirstPass(ls, uf, ops, [f.r.st.signature EXCEPT ![1] = At(f.r.info.dtypes, 2)],
              f.dts, force_legacy_promotion, allow_legacy_promotion, f.r.st.cache,
              Append(f.r.st.trace, Event("reduce_fix", f.dts, f.r.info, <<>>, FALSE, 0)),
              f.r.st.err, ub)

FinishPass(f) ==
    IF f.rc < 0
        THEN Result(NULL, NoInfo, f.r.st.signature, f.dts, f.r.st.err, f.r.st.cache,
                    f.r.st.trace, FALSE)
    ELSE Finish(f.dts, f.r)

AfterFirstPass(ls, uf, ops, force_legacy_promotion, allow_legacy_promotion, ensure_reduce_compatible, f, ub) ==
    IF f.rc >= 0 /\ NeedsReduceFix(ensure_reduce_compatible, f.r)
        THEN FinishPass(SecondPass(ls, uf, ops, force_legacy_promotion,
                                   allow_legacy_promotion, f, ub))
    ELSE FinishPass(f)

promote_and_get_ufuncimpl(ls, uf, ops, signature, op_dtypes, force_legacy_promotion, allow_legacy_promotion, ensure_reduce_compatible, tb, trace, err, ub) ==
    AfterFirstPass(ls, uf, ops, force_legacy_promotion, allow_legacy_promotion,
                   ensure_reduce_compatible,
                   FirstPass(ls, uf, ops, signature, op_dtypes, force_legacy_promotion,
                             allow_legacy_promotion, tb, trace, err, ub), ub)

\* ------------------------------------------------------------------------
\* PyUFunc_AddLoop
\* ------------------------------------------------------------------------
AddLoopResult(rc, ls, err) == [rc |-> rc, loops |-> ls, err |-> err]

\* PyUFunc_AddLoop appending a duplicate that it is told to ignore
PyUFunc_AddLoopAppendsDuplicate(ls, info, ignore_duplicate) ==
    IF Len(info.dtypes) # nargs
        THEN AddLoopResult(-1, ls, "TypeError")
    ELSE IF \E i \in 1..nargs : info.dtypes[i] \notin DTypes \cup {None}
        THEN AddLoopResult(-1, ls, "TypeError")
    ELSE IF info.meth \notin ArrayMethods \cup Promoters
        THEN AddLoopResult(-1, ls, "TypeError")
    ELSE IF (\E i \in 1..Len(ls) : ls[i].dtypes = info.dtypes) /\ ~ignore_duplicate
        THEN AddLoopResult(-1, ls, "TypeError")
    ELSE AddLoopResult(0, Append(ls, info), NoErr)

PyUFunc_AddLoop(ls, info, ignore_duplicate) ==
    IF Len(info.dtypes) # nargs
        THEN AddLoopResult(-1, ls, "TypeError")
    ELSE IF \E i \in 1..nargs : info.dtypes[i] \notin DTypes \cup {None}
        THEN AddLoopResult(-1, ls, "TypeError")
    ELSE IF info.meth \notin ArrayMethods \cup Promoters
        THEN AddLoopResult(-1, ls, "TypeError")
    ELSE IF \E i \in 1..Len(ls) : ls[i].dtypes = info.dtypes
        THEN IF ignore_duplicate THEN AddLoopResult(0, ls, NoErr)
             ELSE AddLoopResult(-1, ls, "TypeError")
    ELSE AddLoopResult(0, Append(ls, info), NoErr)

\* ------------------------------------------------------------------------
\* The state machine
\* ------------------------------------------------------------------------
\* What the two undefined reads can yield: PyObject_IsSubclass on a NULL
\* operand DType (1, 0, or -2 for a crash) and a new_op_dtypes slot the
\* object-only promoter never wrote.
UBOutcomes == [isub : {-2, 0, 1}, garbage : {"O", "i4"}]
UB0 == [isub |-> -2, garbage |-> "O"]

\* Whether a matcher scan of ls for key reaches the subclass test with a
\* NULL operand DType in some entry.
NullSubclassSite(ls, key) ==
    \E n \in 1..Len(ls), i \in 0..(nin - 1) :
        /\ At(key, i) = NULL
        /\ NPY_DT_is_abstract(At(ls[n].dtypes, i))
        /\ At(ls[n].dtypes, 0) # At(ls[n].dtypes, 2)

\* Whether the run r may have read one of the two undefined values
MayReadUB(ls, r) ==
    \E n \in 1..Len(r.trace) :
        LET e == r.trace[n]
        IN  \/ e.ev = "match" /\ NullSubclassSite(ls, e.key)
            \/ e.ev = "promoter" /\ e.info.meth = "object_only_ufunc_promoter"

EmptyCache == [k \in {} |-> NoInfo]

InitCall == [op |-> "init", err |-> NoErr]

Alive == call.err # "SIGSEGV"

AddLoop(Catalog) ==
    /\ Alive
    /\ \E info \in Catalog, ignore_duplicate \in BOOLEAN :
        LET r == PyUFunc_AddLoop(loops, info, ignore_duplicate)
        IN  /\ loops' = r.loops
            /\ call' = [op |-> "add_loop", info |-> info,
                        ignore_duplicate |-> ignore_duplicate,
                        before |-> loops, rc |-> r.rc, err |-> r.err]
    /\ UNCHANGED <<cache, ufunc>>

\* flags: <<force_legacy_promotion, allow_legacy_promotion, ensure_reduce_compatible>>
Run(ops, signature, flags, ub) ==
    promote_and_get_ufuncimpl(loops, ufunc, ops, signature, ops, flags[1], flags[2],
                              flags[3], cache, <<>>, NoErr, ub)

\* The undefined values to consider for a call whose run under UB0 is r0
UBChoices(ls, r0) == IF MayReadUB(ls, r0) THEN UBOutcomes ELSE {UB0}

\* The call returned r: the cache is as the call left it
Returned(ops, signature, flags, r) ==
    /\ cache' = r.cache
    /\ call' = [op |-> "resolve", ops |-> ops, sig |-> signature,
                flags |-> flags, before |-> cache, method |-> r.method,
                info |-> r.info, signature |-> r.signature,
                op_dtypes |-> r.op_dtypes, err |-> r.err,
                trace |-> r.trace, assert_failed |-> r.assert_failed]

Resolve(OpsSet, SigSet, FlagSet) ==
    /\ Alive
    /\ \E ops \in OpsSet, signature \in SigSet, flags \in FlagSet :
        /\ flags[1] => ufunc.type_resolver # NULL
        /\ \E ub \in UBChoices(loops, Run(ops, signature, flags, UB0)) :
              Returned(ops, signature, flags, Run(ops, signature, flags, ub))
    /\ UNCHANGED <<loops, ufunc>>

UFunc(resolver, ntypes) == [type_resolver |-> resolver, ntypes |-> ntypes]

\* --- an add-like ufunc ---------------------------------------------------
AddCatalog ==
    { Info(<<"i4", "i4", "i4">>, "AddInt32Impl"),
      Info(<<"f8", "f8", "f8">>, "AddFloat64Impl"),
      Info(<<None, None, None>>, "default_ufunc_promoter"),
      Info(<<"i4", "i4", "i4">>, "NumImpl"),
      Info(<<"i4", "i4">>, "AddInt32Impl") }

AddOps == {<<"i4", "i4", NULL>>, <<"i4", "f8", NULL>>, <<"f8", "f8", NULL>>}
AddSigs == {<<NULL, NULL, NULL>>, <<NULL, NULL, "f8">>}
AddFlags == {<<FALSE, FALSE, FALSE>>, <<FALSE, TRUE, FALSE>>}

Init ==
    /\ loops = <<>>
    /\ cache = EmptyCache
    /\ ufunc = UFunc("Default", 1)
    /\ call = InitCall

Next ==
    \/ AddLoop(AddCatalog)
    \/ Resolve(AddOps, AddSigs, AddFlags)

Spec == Init /\ [][Next]_vars
\* --- a logical ufunc with a legacy resolver, also used in reductions ------
LogicalCatalog ==
    { Info(<<"b1", "b1", "b1">>, "BoolImpl"),
      Info(<<"f8", "f8", "b1">>, "LogicalImpl"),
      Info(<<None, None, None>>, "logical_ufunc_promoter") }

LogicalOps == {<<NULL, "f8", NULL>>, <<"f8", "f8", NULL>>}
LogicalSigs == {<<NULL, NULL, NULL>>, <<NULL, NULL, "f8">>}
LogicalFlags == {<<FALSE, FALSE, FALSE>>, <<FALSE, TRUE, FALSE>>,
                 <<FALSE, FALSE, TRUE>>, <<FALSE, TRUE, TRUE>>,
                 <<TRUE, TRUE, FALSE>>}

InitLogical ==
    /\ loops = <<>>
    /\ cache = EmptyCache
    /\ ufunc \in {UFunc("SimpleBinaryComparison", 1), UFunc("Datetime", 1)}
    /\ call = InitCall

NextLogical ==
    \/ AddLoop(LogicalCatalog)
    \/ Resolve(LogicalOps, LogicalSigs, LogicalFlags)

SpecLogical == InitLogical /\ [][NextLogical]_vars

\* --- patterns that tie ----------------------------------------------------
TieCatalog ==
    { Info(<<"Num", None, None>>, "NumImpl"),
      Info(<<None, "Num", None>>, "InexImpl"),
      Info(<<"Num", None, None>>, "cycle_promoter"),
      Info(<<None, "Num", None>>, "cycle_promoter"),
      Info(<<None, None, None>>, "default_ufunc_promoter"),
      Info(<<"f8", "f8", "f8">>, "AddFloat64Impl") }

TieOps == {<<"i4", "f8", NULL>>, <<"f8", "f8", NULL>>}
TieSigs == {<<NULL, NULL, NULL>>}
TieFlags == {<<FALSE, FALSE, FALSE>>, <<FALSE, TRUE, FALSE>>}

InitTie ==
    /\ loops = <<>>
    /\ cache = EmptyCache
    /\ ufunc = UFunc("Default", 1)
    /\ call = InitCall

NextTie ==
    \/ AddLoop(TieCatalog)
    \/ Resolve(TieOps, TieSigs, TieFlags)

SpecTie == InitTie /\ [][NextTie]_vars

\* --- a chain of promoters -------------------------------------------------
ChainCatalog ==
    { Info(<<None, None, None>>, "cycle_promoter"),
      Info(<<"b1", "b1", "b1">>, "BoolImpl"),
      Info(<<"i4", "f8", "f8">>, "AddFloat64Impl") }

ChainOps == {<<"i4", "i4", NULL>>, <<"f8", "f8", NULL>>, <<"f8", "b1", NULL>>}
ChainSigs == {<<NULL, NULL, NULL>>, <<NULL, "f8", NULL>>}
ChainFlags == {<<FALSE, FALSE, FALSE>>, <<FALSE, TRUE, FALSE>>, <<FALSE, FALSE, TRUE>>}

InitChain ==
    /\ loops = <<>>
    /\ cache = EmptyCache
    /\ ufunc \in {UFunc(NULL, 0), UFunc("Default", 1)}
    /\ call = InitCall

NextChain ==
    \/ AddLoop(ChainCatalog)
    \/ Resolve(ChainOps, ChainSigs, ChainFlags)

SpecChain == InitChain /\ [][NextChain]_vars

\* --- a ufunc with an object loop only -------------------------------------
ObjectCatalog ==
    { Info(<<"O", "O", "O">>, "ObjectImpl"),
      Info(<<None, None, None>>, "object_only_ufunc_promoter") }

ObjectOps == {<<"i4", "i4", NULL>>, <<"O", "i4", NULL>>}
ObjectSigs == {<<NULL, NULL, NULL>>, <<NULL, NULL, "O">>, <<"i4", "i4", "i4">>}
ObjectFlags == {<<FALSE, FALSE, FALSE>>, <<FALSE, TRUE, FALSE>>}

InitObject ==
    /\ loops = <<>>
    /\ cache = EmptyCache
    /\ ufunc \in {UFunc(NULL, 0), UFunc("Default", 1)}
    /\ call = InitCall

NextObject ==
    \/ AddLoop(ObjectCatalog)
    \/ Resolve(ObjectOps, ObjectSigs, ObjectFlags)

SpecObject == InitObject /\ [][NextObject]_vars

\* --- a ufunc with a datetime-like legacy resolver, used in reductions ------
ReduceCatalog ==
    { Info(<<"f8", "f8", "b1">>, "LogicalImpl"),
      Info(<<"f8", "f8", "f8">>, "AddFloat64Impl"),
      Info(<<"b1", "b1", "b1">>, "BoolImpl") }

ReduceOps == {<<"f8", "f8", NULL>>, <<NULL, "f8", NULL>>}
ReduceSigs == {<<NULL, NULL, NULL>>, <<NULL, NULL, "b1">>}
ReduceFlags == {<<FALSE, FALSE, TRUE>>, <<FALSE, TRUE, TRUE>>, <<TRUE, TRUE, TRUE>>}

InitReduce ==
    /\ loops = <<>>
    /\ cache = EmptyCache
    /\ ufunc = UFunc("Datetime", 1)
    /\ call = InitCall

NextReduce ==
    \/ AddLoop(ReduceCatalog)
    \/ Resolve(ReduceOps, ReduceSigs, ReduceFlags)

SpecReduce == InitReduce /\ [][NextReduce]_vars

\* --- a logical ufunc with promoters registered for single inputs ----------
RefuseCatalog ==
    { Info(<<"i4", None, None>>, "logical_ufunc_promoter"),
      Info(<<None, "f8", None>>, "logical_ufunc_promoter"),
      Info(<<None, None, None>>, "logical_ufunc_promoter"),
      Info(<<"b1", "b1", "b1">>, "BoolImpl") }

RefuseOps == {<<"i4", "f8", NULL>>, <<"f8", "f8", NULL>>}
RefuseSigs == {<<NULL, NULL, NULL>>, <<NULL, NULL, "f8">>}
RefuseFlags == {<<FALSE, FALSE, FALSE>>, <<FALSE, TRUE, FALSE>>}

InitRefuse ==
    /\ loops = <<>>
    /\ cache = EmptyCache
    /\ ufunc \in {UFunc(NULL, 0), UFunc("Datetime", 1)}
    /\ call = InitCall

NextRefuse ==
    \/ AddLoop(RefuseCatalog)
    \/ Resolve(RefuseOps, RefuseSigs, RefuseFlags)

SpecRefuse == InitRefuse /\ [][NextRefuse]_vars

\* --- the built-in promoters alone ---------------------------------------
\* The signatures and operand DTypes a promoter is called with.  A slot
\* fixed by the signature holds the signature's DType (lines 812-830) and
\* the first input is unset for a reduction; an output that is not fixed is
\* unset at the top level and holds the DType the legacy resolver or an
\* earlier promoter chose in a recursive call (lines 494-496, 747-748).
PromoterDTypes == {"b1", "f8", "O", "S"}

PromoterSigs == {<<a, b, c>> : a \in {NULL} \cup PromoterDTypes,
                               b \in {NULL} \cup PromoterDTypes,
                               c \in {NULL} \cup PromoterDTypes}

PromoterOps(signature) ==
    {<<a, b, c>> :
        a \in IF At(signature, 0) # NULL THEN {At(signature, 0)}
              ELSE {NULL} \cup PromoterDTypes,
        b \in IF At(signature, 1) # NULL THEN {At(signature, 1)} ELSE PromoterDTypes,
        c \in IF At(signature, 2) # NULL THEN {At(signature, 2)}
              ELSE {NULL} \cup PromoterDTypes}

BuiltinPromoters == {"default_ufunc_promoter", "object_only_ufunc_promoter",
                     "logical_ufunc_promoter"}

\* The arguments of one promoter call
PromoterArgs ==
    UNION {{[op |-> "promoter_args", promoter |-> promoter,
             op_dtypes |-> op_dtypes, signature |-> signature, err |-> NoErr] :
                op_dtypes \in PromoterOps(signature)} :
           promoter \in BuiltinPromoters, signature \in PromoterSigs}

\* promoter->promoter_function(ufunc, op_dtypes, signature, new_op_dtypes)
Promote ==
    /\ call.op = "promoter_args"
    /\ \E ub \in UBOutcomes :
        /\ ub.isub = UB0.isub
        /\ (call.promoter = "object_only_ufunc_promoter" \/ ub = UB0)
        /\ LET p == promoter_function(call.promoter, ufunc, call.op_dtypes,
                                      call.signature, ub)
           IN  call' = [op |-> "promote", promoter |-> call.promoter,
                        op_dtypes |-> call.op_dtypes, signature |-> call.signature,
                        rc |-> p.rc, new_op_dtypes |-> p.new_op_dtypes,
                        err |-> NoErr]
    /\ UNCHANGED <<loops, cache, ufunc>>

InitPromoter ==
    /\ loops = <<>>
    /\ cache = EmptyCache
    /\ ufunc \in {UFunc("Default", 1), UFunc("SimpleBinaryComparison", 1)}
    /\ call \in PromoterArgs

NextPromoter == Promote

SpecPromoter == InitPromoter /\ [][NextPromoter]_vars

\* --- two resolutions of the same operand DTypes, interleaved -------------
\* promote_and_get_info_and_ufuncimpl in steps.  A thread is the stack of
\* its driver calls, the info the last finished call returned, its own
\* signature array and its pending exception (missed records that its
\* outermost cache probe found nothing); the two threads share the cache.  A thread may be preempted wherever the driver calls out (the
\* subclass test, a promoter, the legacy resolver), that is between any two
\* of its cache accesses.
Frame(key, allow_legacy_promotion, depth, pc, info, cacheable) ==
    [key |-> key, allow |-> allow_legacy_promotion, depth |-> depth, pc |-> pc,
     info |-> info, cacheable |-> cacheable]

Thread(ops, op_dtypes, signature, allow_legacy_promotion) ==
    [ops |-> ops, signature |-> signature, err |-> NoErr, ret |-> NoInfo,
     missed |-> FALSE,
     stack |-> <<Frame(op_dtypes, allow_legacy_promotion, 0, "get", NoInfo, TRUE)>>]

Top(T) == T.stack[Len(T.stack)]

\* return info; from the topmost driver call
Return(T, info) == [T EXCEPT !.stack = SubSeq(@, 1, Len(@) - 1), !.ret = info]

Goto(T, pc, info) == [T EXCEPT !.stack[Len(T.stack)].pc = pc,
                               !.stack[Len(T.stack)].info = info]

Push(T, frame) == [T EXCEPT !.stack = Append(@, frame)]

Stepped(T, tb) == [t |-> T, cache |-> tb]

\* A store that refuses a key another writer stored before
SetItemStatusRefusesExisting(tb, key, value) ==
    IF key \in DOMAIN tb /\ value # NoInfo THEN -1 ELSE 0

\* The return value of PyArrayIdentityHash_SetItem(cache, key, value, 0):
\* writing a key that is in the cache already is tolerated (the last writer
\* wins), so that the store never fails.
SetItemStatus(tb, key, value) == 0

\* if (PyArrayIdentityHash_SetItem(...) < 0) { return NULL; } return info;
Store(T, tb, info) ==
    IF SetItemStatus(tb, Top(T).key, info) < 0
        THEN Stepped(Return([T EXCEPT !.err = "RuntimeError"], NoInfo), tb)
    ELSE Stepped(Return(T, info), PyArrayIdentityHash_SetItem(tb, Top(T).key, info))

\* The cache probe (lines 676-682)
StepGet(T, tb) ==
    LET info == PyArrayIdentityHash_GetItem(tb, Top(T).key)
    IN  IF info # NoInfo /\ IsArrayMethod(info) THEN Stepped(Return(T, info), tb)
        ELSE IF info # NoInfo THEN Stepped(Goto(T, "promote", info), tb)
        ELSE Stepped(Goto([T EXCEPT !.missed = @ \/ Len(T.stack) = 1], "match", NoInfo), tb)

\* The matcher after a miss (lines 688-697)
StepMatch(T, tb, ls) ==
    LET m == resolve_implementation_info(ls, Top(T).key, FALSE, UB0)
        T1 == IF m.err = NoErr THEN T ELSE [T EXCEPT !.err = m.err]
    IN  IF m.rc < 0 THEN Stepped(Return(T1, NoInfo), tb)
        ELSE IF m.info # NoInfo /\ IsArrayMethod(m.info)
            THEN Stepped(Goto(T1, "set", m.info), tb)
        ELSE IF m.info # NoInfo THEN Stepped(Goto(T1, "promote", m.info), tb)
        ELSE Stepped(Goto(T1, "legacy", NoInfo), tb)

\* The promoter and the start of the recursive call (lines 453-496, 711-718)
StepPromote(T, tb, uf) ==
    LET f == Top(T)
        p == promoter_function(f.info.meth, uf, f.key, T.signature, UB0)
    IN  IF p.rc < 0 \/ p.new_op_dtypes = f.key
            THEN IF T.err # NoErr THEN Stepped(Return(T, NoInfo), tb)
                 ELSE Stepped(Goto(T, "legacy", NoInfo), tb)
        ELSE IF f.depth >= RecursionLimit
            THEN Stepped(Return([T EXCEPT !.err = "RecursionError"], NoInfo), tb)
        ELSE Stepped(Push(Goto(T, "after_promoter", NoInfo),
                          Frame(p.new_op_dtypes, FALSE, f.depth + 1, "get", NoInfo, TRUE)),
                     tb)

\* The recursive call after a promoter returned T.ret (lines 716-726)
StepAfterPromoter(T, tb) ==
    IF T.ret = NoInfo /\ T.err # NoErr THEN Stepped(Return(T, NoInfo), tb)
    ELSE IF T.ret # NoInfo THEN Store(T, tb, T.ret)
    ELSE Stepped(Goto(T, "legacy", NoInfo), tb)

\* The legacy fallback up to its recursive call (lines 733-748)
StepLegacy(T, tb, uf) ==
    LET f == Top(T)
    IN  IF ~f.allow \/ uf.type_resolver = NULL \/ uf.ntypes = 0
            THEN Stepped(Return(T, NoInfo), tb)
        ELSE LET l == legacy_promote_using_legacy_type_resolver(uf, T.ops, T.signature, T.err)
                 T1 == [T EXCEPT !.signature = l.signature, !.err = l.err]
             IN  IF l.rc < 0 THEN Stepped(Return(T1, NoInfo), tb)
                 ELSE Stepped(Push([T1 EXCEPT !.stack[Len(T.stack)].pc = "after_legacy",
                                              !.stack[Len(T.stack)].cacheable = l.cacheable],
                                   Frame(l.operation_DTypes, FALSE, f.depth, "get",
                                         NoInfo, TRUE)),
                              tb)

\* The end of the legacy fallback (lines 753-758)
StepAfterLegacy(T, tb) ==
    IF Top(T).cacheable THEN Store(T, tb, T.ret)
    ELSE Stepped(Return(T, T.ret), tb)

Step(T, tb, ls, uf) ==
    CASE Top(T).pc = "get" -> StepGet(T, tb)
      [] Top(T).pc = "match" -> StepMatch(T, tb, ls)
      [] Top(T).pc = "set" -> Store(T, tb, Top(T).info)
      [] Top(T).pc = "promote" -> StepPromote(T, tb, uf)
      [] Top(T).pc = "after_promoter" -> StepAfterPromoter(T, tb)
      [] Top(T).pc = "legacy" -> StepLegacy(T, tb, uf)
      [] OTHER -> StepAfterLegacy(T, tb)

ThreadIds == {1, 2}

ThreadDone(T) == T.stack = <<>>

ThreadStep ==
    /\ call.op = "threads"
    /\ \E n \in ThreadIds :
        /\ ~ThreadDone(call.t[n])
        /\ LET s == Step(call.t[n], cache, loops, ufunc)
           IN  /\ cache' = s.cache
               /\ call' = [call EXCEPT !.t[n] = s.t]
    /\ UNCHANGED <<loops, ufunc>>

ThreadRegistries ==
    { <<Info(<<"i4", "i4", "i4">>, "AddInt32Impl"),
        Info(<<"f8", "f8", "f8">>, "AddFloat64Impl"),
        Info(<<None, None, None>>, "default_ufunc_promoter")>>,
      <<Info(<<"b1", "b1", "b1">>, "BoolImpl"),
        Info(<<"f8", "f8", "b1">>, "LogicalImpl"),
        Info(<<None, None, None>>, "logical_ufunc_promoter")>>,
      <<Info(<<"f8", "f8", "f8">>, "AddFloat64Impl")>> }

ThreadOps == {<<"i4", "i4", NULL>>, <<"i4", "f8", NULL>>, <<"f8", "f8", NULL>>}
ThreadSigs == {<<NULL, NULL, NULL>>, <<NULL, NULL, "f8">>}

InitThreads ==
    /\ loops \in ThreadRegistries
    /\ cache = EmptyCache
    /\ ufunc \in {UFunc("Default", 1), UFunc("SimpleBinaryComparison", 1)}
    /\ \E ops \in ThreadOps, signature \in ThreadSigs, allow \in BOOLEAN :
        call = [op |-> "threads", err |-> NoErr, ops |-> ops, sig |-> signature,
                allow |-> allow,
                t |-> [n \in ThreadIds |->
                        Thread(ops, MixSignature(signature, ops), signature, allow)]]

NextThreads == ThreadStep

SpecThreads == InitThreads /\ [][NextThreads]_vars

\* --- the matcher on registries of three entries ---------------------------
ScanEntries ==
    { Info(<<None, None, None>>, "cycle_promoter"),
      Info(<<"Num", None, None>>, "NumImpl"),
      Info(<<None, "Num", None>>, "cycle_promoter"),
      Info(<<"Inex", None, None>>, "InexImpl"),
      Info(<<"f8", "f8", "f8">>, "AddFloat64Impl"),
      Info(<<"f8", "f8", None>>, "cycle_promoter"),
      Info(<<"Num", "Num", None>>, "cycle_promoter"),
      Info(<<None, "f8", None>>, "NumImpl"),
      Info(<<"f8", None, None>>, "cycle_promoter"),
      Info(<<None, None, "f8">>, "NumImpl"),
      Info(<<"Num", "f8", "f8">>, "cycle_promoter"),
      Info(<<None, "Num", "f8">>, "InexImpl"),
      Info(<<None, None, "Num">>, "NumImpl"),
      Info(<<None, None, "Inex">>, "InexImpl"),
      Info(<<"f8", None, "Inex">>, "cycle_promoter") }

RegistrySize == 3

\* PyUFunc_AddLoop keeps the DType tuples of the registry distinct
ScanRegistries ==
    {ls \in [1..RegistrySize -> ScanEntries] :
        \A i, j \in 1..RegistrySize : i # j => ls[i].dtypes # ls[j].dtypes}

ScanOps == {<<"f8", "f8", NULL>>, <<"f8", "f8", "f8">>, <<NULL, "f8", NULL>>,
            <<"i4", "f8", NULL>>}

\* resolve_implementation_info(ufunc, op_dtypes, NPY_FALSE, &info)
Scan ==
    /\ call.op = "init"
    /\ \E op_dtypes \in ScanOps, ub \in UBOutcomes :
        /\ ub.garbage = UB0.garbage
        /\ (ub = UB0 \/ NullSubclassSite(loops, op_dtypes))
        /\ LET m == resolve_implementation_info(loops, op_dtypes, FALSE, ub)
           IN  call' = [op |-> "scan", op_dtypes |-> op_dtypes, ub |-> ub,
                        rc |-> m.rc, info |-> m.info, err |-> m.err,
                        retry |-> m.retry]
    /\ UNCHANGED <<loops, cache, ufunc>>

InitScan ==
    /\ loops \in ScanRegistries
    /\ cache = EmptyCache
    /\ ufunc = UFunc(NULL, 0)
    /\ call = InitCall

NextScan == Scan

SpecScan == InitScan /\ [][NextScan]_vars

\* --- a comparison ufunc with two promoters that tie and an abstract DType
\* --- whose subclass test fails, used in reductions ---
StaleCatalog ==
    { Info(<<"Num", None, None>>, "cycle_promoter"),
      Info(<<None, "Num", None>>, "default_ufunc_promoter"),
      Info(<<"f8", "f8", "b1">>, "LogicalImpl"),
      Info(<<"f8", "Err", None>>, "cycle_promoter") }

StaleOps == {<<"i4", "f8", NULL>>, <<"f8", "f8", NULL>>}

InitStale ==
    /\ loops = <<>>
    /\ cache = EmptyCache
    /\ ufunc = UFunc("SimpleBinaryComparison", 1)
    /\ call = InitCall

NextStale ==
    \/ AddLoop(StaleCatalog)
    \/ Resolve(StaleOps, {<<NULL, NULL, NULL>>},
               {<<FALSE, FALSE, FALSE>>, <<FALSE, TRUE, FALSE>>, <<FALSE, TRUE, TRUE>>})

SpecStale == InitStale /\ [][NextStale]_vars

\* --- calls in sequence on a fixed registry ---------------------------------
SeqSigs == {<<NULL, NULL, NULL>>, <<"i4", NULL, NULL>>, <<NULL, NULL, "f8">>}

InitSeq ==
    /\ loops \in ThreadRegistries
    /\ cache = EmptyCache
    /\ ufunc \in {UFunc("Default", 1), UFunc("SimpleBinaryComparison", 1)}
    /\ call = InitCall

NextSeq == Resolve(AddOps, SeqSigs, {<<FALSE, TRUE, FALSE>>})

SpecSeq == InitSeq /\ [][NextSeq]_vars

\* --- the matcher alone, on a registry of one entry ------------------------
MatchPatterns ==
    {<<a, b, c>> : a \in {None, "i4", "f8", "Num", "Inex", "Err"},
                   b \in {None, "f8", "Num"},
                   c \in {None, "i4", "f8", "Num"}}

MatchOps ==
    {<<a, b, c>> : a \in {NULL, "i4", "i4sub", "f8", "O", "Num", "Inex"},
                   b \in {"i4", "f8"},
                   c \in {NULL, "f8", "Num"}}

Match(OpsSet) ==
    /\ Alive
    /\ \E op_dtypes \in OpsSet, ub \in UBOutcomes :
        /\ (ub = UB0 \/ NullSubclassSite(loops, op_dtypes))
        /\ LET m == resolve_implementation_info(loops, op_dtypes, FALSE, ub)
           IN  call' = [op |-> "match", op_dtypes |-> op_dtypes, rc |-> m.rc,
                        info |-> m.info, err |-> m.err, retry |-> m.retry,
                        slots |-> [i \in 1..nargs |->
                            MatchDType(op_dtypes, loops[1].dtypes, i - 1, ub)]]
    /\ UNCHANGED <<loops, cache, ufunc>>

InitMatch ==
    /\ loops \in {<<Info(dtypes, "NumImpl")>> : dtypes \in MatchPatterns}
    /\ cache = EmptyCache
    /\ ufunc = UFunc(NULL, 0)
    /\ call = InitCall

NextMatch == Match(MatchOps)

SpecMatch == InitMatch /\ [][NextMatch]_vars
\* ------------------------------------------------------------------------
\* Properties
\* ------------------------------------------------------------------------
IsResolve == call.op = "resolve"

Succeeded == IsResolve /\ call.method # NULL

TraceEvents(ev) == {n \in 1..Len(call.trace) : call.trace[n].ev = ev}

\* The operand DTypes the driver is first called with (no up-front legacy
\* promotion)
Query == MixSignature(call.sig, call.ops)

\* C1: two consecutive resolve calls with the same operand types, the same
\* signature and the same flags, with no registration in between, return the
\* same implementation and the same final signature, or the same failure.
C1_SameCallSameResult ==
    [][(/\ call.op = "resolve" /\ call'.op = "resolve"
        /\ call'.ops = call.ops /\ call'.sig = call.sig /\ call'.flags = call.flags)
       => (/\ call'.method = call.method
           /\ call'.err = call.err
           /\ (call.method # NULL => call'.signature = call.signature))]_vars
\* --- C2 ---
\* The entries of ls that match the operand DTypes X
Matching(ls, X) == {i \in 1..Len(ls) : MatchLoop(X, ls[i].dtypes, 0, UB0) = "match"}

\* Two entries of ls match X and the slot-by-slot comparison prefers neither
TiePair(ls, X) ==
    \E i, j \in Matching(ls, X) :
        i # j /\ CompareLoops(ls[i].dtypes, ls[j].dtypes, X, 0, -1) = -1

\* The first two entries of ls that match X tie
FirstTwoTie(ls, X) ==
    \E i, j \in Matching(ls, X) :
        /\ i < j
        /\ \A k \in Matching(ls, X) : k = i \/ k >= j
        /\ CompareLoops(ls[i].dtypes, ls[j].dtypes, X, 0, -1) = -1

\* A subclass test fails (with an exception) while the entries of ls are
\* matched against X
SubclassTestFails(ls, X) ==
    \E i \in 1..Len(ls) : MatchLoop(X, ls[i].dtypes, 0, UB0) = "error"

\* Two promoters of ls match X and tie
PromoterTie(ls, X) ==
    \E i, j \in Matching(ls, X) :
        /\ i # j /\ ~IsArrayMethod(ls[i]) /\ ~IsArrayMethod(ls[j])
        /\ CompareLoops(ls[i].dtypes, ls[j].dtypes, X, 0, -1) = -1

DefaultPromoterEntry == Info(<<None, None, None>>, "default_ufunc_promoter")
AddFloat64Entry == Info(<<"f8", "f8", "f8">>, "AddFloat64Impl")

HasEntry(info) == \E i \in 1..Len(loops) : loops[i] = info

AddInt32Entry == Info(<<"i4", "i4", "i4">>, "AddInt32Impl")

\* A resolve of (int32, float64, None) without signature and without
\* up-front legacy promotion, not answered from the cache, with the default
\* promoter and the float64 loop registered (and at most the int32 loop
\* besides them)
C3_Scenario ==
    /\ IsResolve
    /\ HasEntry(DefaultPromoterEntry) /\ HasEntry(AddFloat64Entry)
    /\ \A i \in 1..Len(loops) :
          loops[i] \in {DefaultPromoterEntry, AddFloat64Entry, AddInt32Entry}
    /\ ~call.flags[1]
    /\ call.ops = <<"i4", "f8", NULL>>
    /\ call.sig = <<NULL, NULL, NULL>>
    /\ call.ops \notin DOMAIN call.before

\* The default promoter was called on key and returned new
PromoterReturned(key, new) ==
    \E n \in TraceEvents("promoter") :
        /\ call.trace[n].info.meth = "default_ufunc_promoter"
        /\ call.trace[n].key = key
        /\ call.trace[n].flag
        /\ call.trace[n].new = new

\* C3 (as stated): in the scenario the default promoter returns
\* (float64, float64, float64) and the recursive call returns AddFloat64Impl.
C3_PromoterFillsOutput ==
    C3_Scenario
        => (/\ PromoterReturned(<<"i4", "f8", NULL>>, <<"f8", "f8", "f8">>)
            /\ call.method = "AddFloat64Impl")

\* C3 (amended): in the scenario the default promoter returns
\* (float64, float64, None): it sets the two inputs to the common type and
\* copies the unconstrained output slot from the operand types, where it is
\* unset; the recursive call on these types finds AddFloat64Impl (in the
\* registry or in the cache) and the call returns it with the final
\* signature (float64, float64, float64).
C3_PromoterKeepsOutput ==
    C3_Scenario
        => (/\ PromoterReturned(<<"i4", "f8", NULL>>, <<"f8", "f8", NULL>>)
            /\ \E n \in TraceEvents("match") \cup TraceEvents("hit") :
                  /\ call.trace[n].depth = 1
                  /\ call.trace[n].key = <<"f8", "f8", NULL>>
                  /\ call.trace[n].info = AddFloat64Entry
            /\ call.method = "AddFloat64Impl"
            /\ call.signature = <<"f8", "f8", "f8">>)

\* C3 witness: the scenario, resolved through the default promoter
C3_Witness ==
    /\ C3_Scenario
    /\ PromoterReturned(<<"i4", "f8", NULL>>, <<"f8", "f8", NULL>>)
    /\ call.method = "AddFloat64Impl"

\* --- C4 ---
\* The call is a reduction whose first lookup found an implementation with
\* an output DType different from its first input DType, and it succeeded
C4_Scenario ==
    /\ Succeeded
    /\ call.flags[3]
    /\ At(call.sig, 0) = NULL
    /\ TraceEvents("reduce_fix") # {}

\* C4: a successful reduction whose first implementation found has an output
\* type different from its first-input type returns a final signature whose
\* slot 0 is that implementation's registered output type.
C4_ReduceSlot0 ==
    C4_Scenario
        => \A n \in TraceEvents("reduce_fix") :
              At(call.signature, 0) = At(call.trace[n].info.dtypes, 2)

\* --- C5 ---
\* C5: no resolve call recurses beyond the recursion limit.  The recursion
\* depth starts at 0 and grows by one only directly after a promoter changed
\* the operand types; a promoter that changes them at the limit is not
\* followed by a further lookup but by the recursion error
\* (PromotionDidNotConverge), and the call then returns no implementation.
C5_RecursionBounded ==
    IsResolve =>
        /\ \A n \in 1..Len(call.trace) :
              /\ call.trace[n].depth \in 0..RecursionLimit
              /\ n = 1 => call.trace[n].depth = 0
              /\ (n > 1 /\ call.trace[n].depth > call.trace[n - 1].depth)
                    => /\ call.trace[n - 1].ev = "promoter"
                       /\ call.trace[n - 1].flag
                       /\ call.trace[n - 1].new # call.trace[n - 1].key
                       /\ call.trace[n].depth = call.trace[n - 1].depth + 1
                       /\ call.trace[n].key = call.trace[n - 1].new
              /\ (/\ call.trace[n].ev = "promoter"
                  /\ call.trace[n].flag
                  /\ call.trace[n].new # call.trace[n].key
                  /\ call.trace[n].depth = RecursionLimit)
                    => /\ n < Len(call.trace)
                       /\ call.trace[n + 1].ev = "recursion_limit"
        /\ TraceEvents("recursion_limit") # {}
              => (call.method = NULL /\ call.err = "RecursionError")

\* C5 witness: a cycling chain of promoters, one at every depth, was stopped
\* at the limit
C5_Witness ==
    /\ IsResolve
    /\ \E n \in TraceEvents("recursion_limit") : call.trace[n].depth = RecursionLimit
    /\ \A d \in 0..RecursionLimit :
          \E n \in TraceEvents("promoter") : call.trace[n].depth = d
    /\ call.err = "RecursionError"

\* --- C6 ---
IsAddLoop == call.op = "add_loop"

\* The registration was of a well-formed entry whose DType tuple was
\* already registered
DuplicateAdd ==
    /\ IsAddLoop
    /\ Len(call.info.dtypes) = nargs
    /\ \E i \in 1..Len(call.before) : call.before[i].dtypes = call.info.dtypes

\* C6: no two registry entries have equal DType tuples; registering a tuple
\* that is already registered fails with a TypeError (RegistrationError)
\* when duplicates are not ignored and succeeds silently when they are, and
\* either way the registry is what it was before.
C6_UniquePatterns ==
    /\ \A i, j \in 1..Len(loops) : loops[i].dtypes = loops[j].dtypes => i = j
    /\ DuplicateAdd
          => (/\ loops = call.before
              /\ call.ignore_duplicate => (call.rc = 0 /\ call.err = NoErr)
              /\ ~call.ignore_duplicate => (call.rc = -1 /\ call.err = "TypeError"))

\* C6 witness: a duplicate tuple with another target was registered with
\* duplicates ignored: the first entry is still there
C6_Witness ==
    /\ DuplicateAdd
    /\ call.ignore_duplicate
    /\ call.info = Info(<<"i4", "i4", "i4">>, "NumImpl")
    /\ call.rc = 0
    /\ loops = call.before
    /\ \E i \in 1..Len(loops) : loops[i] = Info(<<"i4", "i4", "i4">>, "AddInt32Impl")

\* --- C7, C8, C9: the matcher on a registry of one entry ---
IsMatch == call.op = "match"

Pattern == loops[1].dtypes

\* The entry was rejected: the scan went on and found nothing
Rejected == call.rc = 0 /\ call.info = NoInfo /\ call.err = NoErr

\* is_subclass(U, T) of the hierarchy is true
IsSubclassOf(U, T) == PyObject_IsSubclass(U, T, UB0) = 1

\* C7: a concrete DType T in a slot of the registered tuple accepts a set
\* operand DType exactly when it is T; for any other operand DType (a
\* subclass of T, a superclass, an unrelated one) the entry is rejected.
C7_ConcreteExact ==
    IsMatch =>
        \A i \in 1..nargs :
            (Pattern[i] \in ConcreteDTypes /\ call.op_dtypes[i] # NULL)
                => /\ (call.slots[i] = "continue") <=> (call.op_dtypes[i] = Pattern[i])
                   /\ call.op_dtypes[i] # Pattern[i]
                         => (call.slots[i] = "nomatch" /\ call.info = NoInfo)

\* C7 witness: a subclass of the concrete DType of the tuple was rejected
C7_Witness ==
    /\ IsMatch
    /\ Pattern = <<"i4", None, None>>
    /\ call.op_dtypes[1] = "i4sub"
    /\ call.slots[1] = "nomatch"
    /\ Rejected

\* C8: an abstract DType T in a slot of the registered tuple accepts a set
\* operand DType U exactly when U is T or is_subclass(U, T) is true, and
\* the entry is rejected when is_subclass(U, T) is false; a None (Any) slot
\* accepts every operand DType.
C8_AbstractSubclass ==
    IsMatch =>
        \A i \in 1..nargs :
            LET T == Pattern[i]
                U == call.op_dtypes[i]
            IN  /\ (T \in AbstractDTypes /\ U # NULL)
                    => /\ (call.slots[i] = "continue") <=> (U = T \/ IsSubclassOf(U, T))
                       /\ PyObject_IsSubclass(U, T, UB0) = 0
                             => (call.slots[i] = "nomatch" /\ call.info = NoInfo)
                /\ T = None => call.slots[i] = "continue"
                /\ (\A k \in 1..nargs : call.slots[k] = "continue")
                      <=> call.info = loops[1]

\* C8 witness: an operand DType that is a proper subclass of the abstract
\* DType of the tuple was accepted and the entry matched
C8_Witness ==
    /\ IsMatch
    /\ Pattern = <<"Num", None, None>>
    /\ call.op_dtypes[1] = "f8"
    /\ call.info = loops[1]

\* C9: when an input operand DType is unset (NULL) and the slot of the
\* registered tuple is not None, the slot accepts exactly when slot 0 of the
\* tuple equals slot nin; when they differ the entry is rejected, whether
\* the slot holds a concrete or an abstract DType.
C9_NullInput ==
    IsMatch =>
        \A i \in 1..nin :
            (call.op_dtypes[i] = NULL /\ Pattern[i] # None)
                => /\ (call.slots[i] = "continue")
                          <=> (At(Pattern, 0) = At(Pattern, nin))
                   /\ At(Pattern, 0) # At(Pattern, nin) => Rejected

\* --- C10 ---
\* C10: a successful resolve returns a signature every slot of which is set
\* and equals the chosen entry's DType in that slot, every slot the caller
\* fixed still holds the caller's DType, and the assertion on the fixed
\* slots holds.
C10_SignatureIsPattern ==
    Succeeded
        => (/\ \A i \in 1..nargs :
                  /\ call.signature[i] # NULL
                  /\ call.signature[i] = call.info.dtypes[i]
                  /\ (call.sig[i] # NULL => call.signature[i] = call.sig[i])
            /\ ~call.assert_failed)

\* --- C11 ---
\* The events of the last pass of the call (after the reduce correction, if
\* there was one)
LastPass ==
    LET fixes == TraceEvents("reduce_fix")
        last == IF fixes = {} THEN 0 ELSE CHOOSE n \in fixes : \A m \in fixes : m <= n
    IN  {n \in 1..Len(call.trace) : n > last}

\* A step reported an error of its own: the matcher in any pass (its error
\* stays pending when the call goes on), and in the last pass the recursion
\* limit, the legacy resolver in the fallback or up front
StepFailed ==
    \/ \E n \in 1..Len(call.trace) : call.trace[n].err # NoErr
    \/ \E n \in LastPass :
          \/ call.trace[n].ev = "recursion_limit"
          \/ call.trace[n].ev = "legacy" /\ call.trace[n].new = <<>>
    \/ call.flags[1] /\ ~\E n \in LastPass : call.trace[n].ev = "force_legacy"

\* The legacy fallback was not available to the call
LegacyUnavailable ==
    ~call.flags[2] \/ ufunc.type_resolver = NULL \/ ufunc.ntypes = 0

\* No lookup of the last pass (in the cache or in the registry) selected an
\* implementation
NothingFound ==
    \A n \in LastPass :
        /\ call.trace[n].ev # "hit"
        /\ call.trace[n].ev = "match" => ~IsArrayMethod(call.trace[n].info)

\* C11: a resolve call ends with the "no loop found" error
\* (NoMatchingImplementation) exactly when it returns no implementation and
\* no step reported an error of its own; then no lookup selected an
\* implementation, directly or after a promoter, and the legacy fallback was
\* unavailable or was tried once and the lookup on its result found nothing.
C11_NoLoopFound ==
    IsResolve =>
        /\ (call.err = "NoLoopFound") <=> (call.method = NULL /\ ~StepFailed)
        /\ call.err = "NoLoopFound"
              => /\ NothingFound
                 /\ call.info = NoInfo
                 /\ \/ LegacyUnavailable
                    \/ \E n \in LastPass :
                          /\ call.trace[n].ev = "legacy"
                          /\ call.trace[n].new # <<>>
                          /\ n < Len(call.trace)
                          /\ call.trace[n + 1].ev = "match"
                          /\ call.trace[n + 1].key = call.trace[n].new

\* C11 witness: the selected promoter led to nothing, the legacy fallback
\* was tried and found nothing either
C11_Witness ==
    /\ IsResolve
    /\ call.err = "NoLoopFound"
    /\ TraceEvents("promoter") # {}
    /\ \E n \in TraceEvents("legacy") : call.trace[n].new # <<>>

\* --- C12 ---
\* The invocations of the legacy resolver that returned: up front and in
\* the driver's fallback
LegacyCalls == TraceEvents("legacy") \cup TraceEvents("force_legacy")

\* The pass of the call an event belongs to: 0 before the reduce
\* correction, 1 after it
PassOf(n) == Cardinality({m \in TraceEvents("reduce_fix") : m < n})

\* C12 (as stated): during one top-level resolve call the legacy resolver is
\* invoked at most once, and the driver calls made after a promoter or
\* after the legacy step do not enter the legacy fallback.
C12_LegacyAtMostOnce ==
    IsResolve =>
        /\ Cardinality(LegacyCalls) <= 1
        /\ \A n \in TraceEvents("legacy") : call.trace[n].depth = 0

\* C12 (amended): in each pass of a top-level resolve call (the call has a
\* second pass after the reduce correction) the driver's legacy fallback is
\* entered at most once, by the outermost driver call only: never below a
\* promoter and never again after the legacy step; it is entered only when
\* legacy promotion is allowed.  The legacy resolver is invoked once more in
\* a pass when legacy promotion is forced up front, so at most twice in a
\* pass and at most four times in a call.
C12_LegacyOncePerPass ==
    IsResolve =>
        /\ Cardinality(TraceEvents("reduce_fix")) <= 1
        /\ \A k \in 0..1 :
              /\ Cardinality({n \in TraceEvents("legacy") : PassOf(n) = k}) <= 1
              /\ Cardinality({n \in TraceEvents("force_legacy") : PassOf(n) = k}) <= 1
        /\ TraceEvents("legacy") # {} => call.flags[2]
        /\ TraceEvents("force_legacy") # {} => call.flags[1]
        /\ \A n \in TraceEvents("legacy") : call.trace[n].depth = 0
        /\ \A n \in TraceEvents("force_legacy") :
              \A m \in 1..Len(call.trace) :
                  (m < n /\ PassOf(m) = PassOf(n)) => call.trace[m].ev = "reduce_fix"

\* C12 witness: the legacy resolver ran up front and again in the fallback
\* of the same pass, after a promoter of that pass had led to nothing
C12_Witness ==
    /\ IsResolve
    /\ \E f \in TraceEvents("force_legacy"), p \in TraceEvents("promoter"),
          n \in TraceEvents("legacy") :
          /\ f < p /\ p < n
          /\ PassOf(f) = PassOf(n)

\* --- C13 ---
\* The promoter steps of the call that rewrote the operand DTypes and whose
\* recursive call returned an entry: <<p, s>>, s being the cache write of
\* the driver call that invoked the promoter
PromotedAndCached ==
    {<<p, s>> \in TraceEvents("promoter") \X TraceEvents("setitem") :
        /\ p < s
        /\ call.trace[p].flag
        /\ call.trace[p].new # call.trace[p].key
        /\ call.trace[s].key = call.trace[p].key
        /\ call.trace[s].depth = call.trace[p].depth
        /\ call.trace[s].info # NoInfo
        /\ \A m \in (p + 1)..(s - 1) : call.trace[m].depth > call.trace[p].depth}

\* The call succeeded through the promoter step p of its outermost driver
\* call, without the legacy fallback
SucceededThrough(p) ==
    /\ Succeeded
    /\ p \in TraceEvents("promoter") \cap LastPass
    /\ call.trace[p].depth = 0
    /\ call.trace[p].flag
    /\ call.trace[p].new # call.trace[p].key
    /\ \A n \in LastPass : call.trace[n].ev # "legacy"

\* C13 (as stated): when a resolve succeeds through a promoter that rewrote
\* X to Y # X, the cache afterwards maps X to the final entry and the call
\* has written no cache entry under Y.
C13_OnlyOriginalKeyCached ==
    \A p \in 1..Len(IF IsResolve THEN call.trace ELSE <<>>) :
        SucceededThrough(p)
            => LET X == call.trace[p].key
                   Y == call.trace[p].new
               IN  /\ X \in DOMAIN cache
                   /\ cache[X] = call.info
                   /\ \A s \in TraceEvents("setitem") : call.trace[s].key # Y

\* C13 (amended): when a driver call on X obtains an entry through a
\* promoter that rewrote X to Y # X, it stores the entry under X, and the
\* recursive driver call on Y has found that entry under Y in the cache or
\* has stored it there: after the call the cache maps both X and Y to the
\* entry, an implementation.  A resolve that succeeds through such a step of
\* its outermost driver call returns that entry.
C13_CachedUnderBothKeys ==
    IsResolve =>
        /\ \A ps \in PromotedAndCached :
              LET X == call.trace[ps[1]].key
                  Y == call.trace[ps[1]].new
                  info == call.trace[ps[2]].info
              IN  /\ IsArrayMethod(info)
                  /\ X \in DOMAIN cache /\ cache[X] = info
                  /\ Y \in DOMAIN cache /\ cache[Y] = info
                  /\ \E m \in (ps[1] + 1)..(ps[2] - 1) :
                        /\ call.trace[m].ev \in {"hit", "setitem"}
                        /\ call.trace[m].key = Y
                        /\ call.trace[m].depth = call.trace[ps[1]].depth + 1
                        /\ call.trace[m].info = info
        /\ \A p \in TraceEvents("promoter") :
              SucceededThrough(p)
                  => /\ \E s \in TraceEvents("setitem") : <<p, s>> \in PromotedAndCached
                     /\ cache[call.trace[p].key] = call.info

\* C13 witness: a resolve succeeded through a promoter that rewrote X to Y,
\* and wrote the entry under Y and under X, neither cached before
C13_Witness ==
    /\ IsResolve
    /\ \E p \in TraceEvents("promoter") :
          /\ SucceededThrough(p)
          /\ call.trace[p].key \notin DOMAIN call.before
          /\ call.trace[p].new \notin DOMAIN call.before
          /\ \E s \in TraceEvents("setitem") :
                call.trace[s].key = call.trace[p].new /\ call.trace[s].info = call.info
          /\ cache[call.trace[p].key] = call.info
          /\ cache[call.trace[p].new] = call.info

NonCacheable ==
    {n \in TraceEvents("legacy") : call.trace[n].new # <<>> /\ ~call.trace[n].flag}

\* C15: when the legacy fallback for the operand DTypes X marks its result
\* non-cacheable, the call writes no cache entry under X afterwards, and
\* after the call a lookup of X in the cache finds nothing.
C15_NonCacheableNotStored ==
    IsResolve =>
        \A n \in NonCacheable :
            LET X == call.trace[n].key
            IN  /\ \A s \in TraceEvents("setitem") :
                      s > n => call.trace[s].key # X
                /\ PyArrayIdentityHash_GetItem(cache, X) = NoInfo

\* C15 witness: a non-cacheable legacy fallback for X whose recursive call
\* on other operand DTypes returned an implementation, which the call
\* returns
C15_Witness ==
    /\ Succeeded
    /\ \E n \in NonCacheable :
          /\ call.trace[n].new # call.trace[n].key
          /\ call.trace[n].new \in DOMAIN cache
          /\ cache[call.trace[n].new] = call.info
          /\ call.trace[n].key \notin DOMAIN cache

\* --- C16 ---
\* C16: during a resolve call no step overwrites a set signature slot with
\* a different DType: no run of the legacy resolver replaces a slot (none
\* marks its result non-cacheable), every slot the caller fixed holds the
\* caller's DType when the call returns, and slot 0, once set by the reduce
\* correction, keeps the DType the correction gave it.
C16_SignatureSlotsKept ==
    IsResolve =>
        /\ \A n \in LegacyCalls : call.trace[n].new # <<>> => call.trace[n].flag
        /\ \A i \in 1..nargs : call.sig[i] # NULL => call.signature[i] = call.sig[i]
        /\ \A n \in TraceEvents("reduce_fix") :
              At(call.signature, 0) = At(call.trace[n].info.dtypes, 2)

\* --- C17 ---
\* The promoter steps of the call in which the promoter abstained
Abstained == {p \in TraceEvents("promoter") : ~call.trace[p].flag}

\* The legacy fallback is still to come for the pass of event p
LegacyToCome(p) ==
    /\ ~LegacyUnavailable
    /\ \A n \in TraceEvents("legacy") : ~(n < p /\ PassOf(n) = PassOf(p))

\* C17: when the promoter the matcher selected abstains, the abstention is
\* not reported as an error.  The driver call has done nothing but the
\* lookup that selected the promoter; if the legacy fallback is allowed and
\* registered and has not run, the legacy resolver is invoked next;
\* otherwise the call stores nothing more in the cache, returns no
\* implementation and ends with the "no loop found" error.
C17_AbstentionFallsThrough ==
    IsResolve =>
        \A p \in Abstained :
            /\ p > 1
            /\ call.trace[p - 1].ev = "match"
            /\ call.trace[p - 1].key = call.trace[p].key
            /\ call.trace[p - 1].info.meth = call.trace[p].info.meth
            /\ IF LegacyToCome(p)
                   THEN /\ p < Len(call.trace)
                        /\ call.trace[p + 1].ev = "legacy"
                        /\ call.trace[p + 1].depth = 0
               ELSE /\ \A n \in (p + 1)..Len(call.trace) :
                          call.trace[n].ev = "setitem" /\ call.trace[n].info = NoInfo
                    /\ call.method = NULL
                    /\ call.err = "NoLoopFound"

\* ------------------------------------------------------------------------
\* C18: the slots the default promoter returns
\* ------------------------------------------------------------------------
DefaultPromoted ==
    /\ call.op = "promote"
    /\ call.promoter = "default_ufunc_promoter"
    /\ call.rc = 0

\* The common type of a call of the default promoter: the second input's
\* DType for a reduction, the output DType the signature fixes, or else
\* the promotion of the two input DTypes.
CommonType ==
    IF At(call.op_dtypes, 0) = NULL THEN At(call.op_dtypes, 1)
    ELSE IF At(call.signature, 2) # NULL THEN At(call.signature, 2)
    ELSE PyArray_PromoteDTypeSequence(At(call.op_dtypes, 0), At(call.op_dtypes, 1))

C19_ObjectPromoterFillsAllSlots ==
    (call.op = "promote" /\ call.promoter = "object_only_ufunc_promoter") =>
        /\ call.rc = 0
        /\ call.new_op_dtypes =
              [i \in 1..nargs |->
                  IF call.signature[i] = NULL THEN "O" ELSE call.signature[i]]

\* ------------------------------------------------------------------------
\* C20: the logical promoter
\* ------------------------------------------------------------------------
LogicalCalled == call.op = "promote" /\ call.promoter = "logical_ufunc_promoter"

\* (a) both inputs free and the output fixed to a non-boolean DType
OutputOnlyNonBool ==
    /\ At(call.signature, 0) = NULL /\ At(call.signature, 1) = NULL
    /\ At(call.signature, 2) # NULL /\ At(call.signature, 2) # "b1"

\* (b) an input operand DType is a string
StringInput == \E i \in 0..(nin - 1) : At(call.op_dtypes, i) = "S"

\* some slot, fixed or operand, is the object DType
ObjectSlot == \E i \in 1..nargs : call.signature[i] = "O" \/ call.op_dtypes[i] = "O"

OutputFixedNonObject == At(call.signature, 2) # NULL /\ At(call.signature, 2) # "O"

OutputSetNonObject == At(call.op_dtypes, 2) # NULL /\ At(call.op_dtypes, 2) # "O"

\* The tuple of a successful call: the signature's DType in every fixed
\* slot; in every free slot object if toObject, else boolean
LogicalResult(toObject) ==
    [i \in 1..nargs |->
        IF call.signature[i] # NULL THEN call.signature[i]
        ELSE IF toObject THEN "O"
        ELSE "b1"]

LogicalRefusesExactly == call.rc < 0 <=> (OutputOnlyNonBool \/ StringInput)

\* C20 as stated: the logical promoter refuses exactly in cases (a) and
\* (b); otherwise every fixed slot holds the signature's DType and every
\* free slot holds the boolean DType, or the object DType when some slot is
\* the object DType and the signature does not fix the output to another
\* DType than object.
C20_ObjectUnlessOutputFixed ==
    LogicalCalled =>
        /\ LogicalRefusesExactly
        /\ call.rc >= 0 =>
              call.new_op_dtypes = LogicalResult(ObjectSlot /\ ~OutputFixedNonObject)

\* C20 amended: the same, with the free slots turned to object when some
\* slot is the object DType and the output operand DType is unset or
\* object (the output operand DType is the signature's where the signature
\* fixes it).
C20_ObjectUnlessOutputSet ==
    LogicalCalled =>
        /\ LogicalRefusesExactly
        /\ call.rc >= 0 =>
              call.new_op_dtypes = LogicalResult(ObjectSlot /\ ~OutputSetNonObject)

\* Object inputs met with a free output that an earlier step set to
\* boolean: every slot is boolean
C20_Witness ==
    /\ LogicalCalled
    /\ call.rc = 0
    /\ call.signature = <<NULL, NULL, NULL>>
    /\ call.op_dtypes = <<"O", "O", "b1">>
    /\ call.new_op_dtypes = <<"b1", "b1", "b1">>

\* ------------------------------------------------------------------------
\* C21: two interleaved resolutions of the same operand DTypes
\* ------------------------------------------------------------------------
\* What one call alone returns and stores, starting from an empty cache
SingleCall ==
    promote_and_get_ufuncimpl(loops, ufunc, call.ops, call.sig, call.ops, FALSE,
                              call.allow, FALSE, EmptyCache, <<>>, NoErr, UB0)

ThreadMethod(T) == IF T.ret = NoInfo THEN NULL ELSE T.ret.meth

ThreadErr(T) == IF T.ret = NoInfo /\ T.err = NoErr THEN "NoLoopFound" ELSE T.err

BothDone == call.op = "threads" /\ \A n \in ThreadIds : ThreadDone(call.t[n])

\* C21: when two resolutions of the same operand DTypes, both started on an
\* empty cache, have both returned, each has returned the ArrayMethod and
\* the error state a single call returns (none fails because the other
\* stored the key first), and the cache is what a single call leaves.
C21_InterleavedCallsAgree ==
    BothDone =>
        /\ \A n \in ThreadIds :
              /\ ThreadMethod(call.t[n]) = SingleCall.method
              /\ ThreadErr(call.t[n]) = SingleCall.err
        /\ cache = SingleCall.cache

\* Both threads missed the cache before either stored, and both are done
\* with an ArrayMethod stored under the operand DTypes
C21_Witness ==
    /\ BothDone
    /\ \A n \in ThreadIds : call.t[n].missed
    /\ \A n \in ThreadIds : ThreadMethod(call.t[n]) # NULL
    /\ MixSignature(call.sig, call.ops) \in DOMAIN cache

\* ------------------------------------------------------------------------
\* C22: the entry the matcher returns is the best of the scanned entries
\* ------------------------------------------------------------------------
IsScan == call.op = "scan"

ScanReturned == IsScan /\ call.rc = 0 /\ call.info # NoInfo

\* The entries the scan that produced the result looked at
Scanned ==
    {n \in 1..Len(loops) : ~call.retry \/ ~IsArrayMethod(loops[n])}

MatchesQuery(n) == MatchLoop(call.op_dtypes, loops[n].dtypes, 0, call.ub) = "match"

\* The slot comparison prefers the DType tuple E to the DType tuple F
StrictlyBetter(E, F) == CompareLoops(F, E, call.op_dtypes, 0, -1) = 1

\* C22: an entry the matcher returns matches the operand DTypes in every
\* slot and wins the slot comparison against every other entry of the
\* scanned set (all entries, or the promoters in the retry) that matches.
C22_ReturnedIsBest ==
    ScanReturned =>
        /\ MatchLoop(call.op_dtypes, call.info.dtypes, 0, call.ub) = "match"
        /\ \E n \in Scanned : loops[n] = call.info
        /\ \A n \in Scanned :
              (MatchesQuery(n) /\ loops[n] # call.info) =>
                  StrictlyBetter(call.info.dtypes, loops[n].dtypes)

\* Three entries match and the one returned is the last registered
C22_Witness ==
    /\ ScanReturned
    /\ \A n \in 1..Len(loops) : MatchesQuery(n)
    /\ Len(loops) >= 3
    /\ loops[Len(loops)] = call.info
    /\ ~call.retry

\* ------------------------------------------------------------------------
\* C23: the retry with promoters only
\* ------------------------------------------------------------------------
ScanMatching == {n \in 1..Len(loops) : MatchesQuery(n)}

ScanPromoters == {n \in ScanMatching : ~IsArrayMethod(loops[n])}

Ties(i, j) == CompareLoops(loops[i].dtypes, loops[j].dtypes, call.op_dtypes, 0, -1) = -1

SomeTie(S) == \E i, j \in S : i # j /\ Ties(i, j)

\* The first two entries of S, in registration order, tie
FirstTwoOfTie(S) ==
    \E i, j \in S : i < j /\ (\A k \in S : k = i \/ k >= j) /\ Ties(i, j)

\* C23: a tie of the full scan starts the scan with promoters only, and
\* nothing else does; that scan returns no ArrayMethod, returns nothing
\* without an error when no promoter matches, and on a tie of its own ends
\* at once with the RuntimeError of an ambiguous dispatch (it does not scan
\* again), which no other scan raises.
C23_SingleRetryWithPromoters ==
    (IsScan /\ call.err # "SIGSEGV") =>
        /\ FirstTwoOfTie(ScanMatching) => call.retry
        /\ call.retry => SomeTie(ScanMatching)
        /\ call.err = "RuntimeError" => call.retry
        /\ (call.retry /\ call.rc = 0) =>
              /\ call.info = NoInfo \/ ~IsArrayMethod(call.info)
              /\ ScanPromoters = {} => (call.info = NoInfo /\ call.err = NoErr)
              /\ FirstTwoOfTie(ScanPromoters)
                    => (call.info = NoInfo /\ call.err = "RuntimeError")
              /\ call.err = "RuntimeError" => SomeTie(ScanPromoters)

\* A tie of the full scan followed by a tie of two promoters in the retry,
\* with an ArrayMethod that matches as well
C23_Witness ==
    /\ IsScan
    /\ call.retry
    /\ call.rc = 0
    /\ call.err = "RuntimeError"
    /\ \E n \in ScanMatching : IsArrayMethod(loops[n])

\* ------------------------------------------------------------------------
\* C24: an ambiguous dispatch ends the call
\* ------------------------------------------------------------------------
\* The matcher runs of the call that raised the RuntimeError of a tie
AmbiguousMatches == {n \in TraceEvents("match") : call.trace[n].err = "RuntimeError"}

\* C24: once the matcher has raised the RuntimeError of an ambiguous
\* dispatch, the call invokes no promoter and no legacy resolver, writes
\* nothing to the cache, and returns no ArrayMethod but that error.
C24_AmbiguousDispatchEndsCall ==
    IsResolve =>
        \A n \in AmbiguousMatches :
            /\ \A k \in (n + 1)..Len(call.trace) :
                  call.trace[k].ev \notin {"promoter", "legacy", "setitem"}
            /\ call.method = NULL
            /\ call.err = "RuntimeError"

\* ------------------------------------------------------------------------
\* C25: two different abstract DTypes in a compared slot
\* ------------------------------------------------------------------------
\* None, an abstract DType, a concrete DType: the later the more specific
Specificity(T) == IF T = None THEN 0 ELSE IF NPY_DT_is_abstract(T) THEN 1 ELSE 2

\* Slot k (from 0) tells the entries i and j apart, for i or against it
Prefers(i, j, k) ==
    /\ At(call.op_dtypes, k) # NULL
    /\ Specificity(At(loops[i].dtypes, k)) > Specificity(At(loops[j].dtypes, k))

AbstractClash(i, j, k) ==
    /\ At(call.op_dtypes, k) # NULL
    /\ NPY_DT_is_abstract(At(loops[i].dtypes, k))
    /\ NPY_DT_is_abstract(At(loops[j].dtypes, k))
    /\ At(loops[i].dtypes, k) # At(loops[j].dtypes, k)

\* The comparison of i with j gets as far as slot k: the slots before it
\* did not contradict each other, and for an output slot no input slot
\* preferred one of the two
ComparedSlot(i, j, k) ==
    /\ \A s, u \in 0..(k - 1) : ~(Prefers(i, j, s) /\ Prefers(j, i, u))
    /\ k >= nin => \A s \in 0..(nin - 1) : ~Prefers(i, j, s) /\ ~Prefers(j, i, s)

FirstTwo(S, i, j) == i \in S /\ j \in S /\ i < j /\ \A n \in S : n = i \/ n >= j

\* C25: when the comparison of the first two matching entries reaches a
\* slot with a non-null operand DType in which they hold two different
\* abstract DTypes, the matcher fails with the NotImplementedError and
\* returns no entry, whatever the later slots and the later entries are; and
\* it raises that error only for two matching entries with such a slot.
C25_AbstractClashFails ==
    (IsScan /\ call.err # "SIGSEGV") =>
        /\ \A i, j \in ScanMatching : \A k \in 0..(nargs - 1) :
              (FirstTwo(ScanMatching, i, j) /\ AbstractClash(i, j, k) /\ ComparedSlot(i, j, k))
                  => (/\ call.rc = -1
                      /\ call.info = NoInfo
                      /\ call.err = "NotImplementedError"
                      /\ ~call.retry)
        /\ call.err = "NotImplementedError" =>
              \E i, j \in ScanMatching : \E k \in 0..(nargs - 1) : AbstractClash(i, j, k)

\* Two entries with different abstract DTypes in the first slot, followed
\* by a concrete entry that matches as well
C25_Witness ==
    /\ IsScan
    /\ call.err = "NotImplementedError"
    /\ \E i, j \in ScanMatching : FirstTwo(ScanMatching, i, j) /\ AbstractClash(i, j, 0)
    /\ Len(loops) >= 3
    /\ Len(loops) \in ScanMatching
    /\ \A k \in 0..(nin - 1) : Specificity(At(loops[Len(loops)].dtypes, k)) = 2

\* ------------------------------------------------------------------------
\* C26: a promoter that changes nothing
\* ------------------------------------------------------------------------
\* The promoter calls that returned the operand DTypes they were given
Unchanged ==
    {p \in TraceEvents("promoter") :
        call.trace[p].flag /\ call.trace[p].new = call.trace[p].key}

\* C26: when a promoter returns the operand DTypes it was given, the driver
\* makes no recursive call and stores nothing for it; if the legacy
\* fallback is allowed and registered and has not run, the legacy resolver
\* is invoked next by the outermost driver call; otherwise the call stores
\* nothing more in the cache and returns no ArrayMethod.
C26_UnchangedFallsThrough ==
    IsResolve =>
        \A p \in Unchanged :
            IF LegacyToCome(p)
                THEN /\ p < Len(call.trace)
                     /\ call.trace[p + 1].ev = "legacy"
                     /\ call.trace[p + 1].depth = 0
            ELSE /\ \A n \in (p + 1)..Len(call.trace) :
                       call.trace[n].ev = "setitem" /\ call.trace[n].info = NoInfo
                 /\ call.method = NULL

\* ------------------------------------------------------------------------
\* C27: a failing subclass test
\* ------------------------------------------------------------------------
\* The lookups in the registry that a failing subclass test ended
HierarchyFailures ==
    {n \in TraceEvents("match") : call.trace[n].err = "HierarchyError"}

\* The first entry of ls on which a subclass test fails for X
FirstFailing(ls, X) ==
    CHOOSE i \in 1..Len(ls) :
        /\ MatchLoop(X, ls[i].dtypes, 0, UB0) = "error"
        /\ \A j \in 1..(i - 1) : MatchLoop(X, ls[j].dtypes, 0, UB0) # "error"

\* C27: when a subclass test fails during a scan of the registry, the
\* entries registered after the failing one play no part in the scan's
\* outcome, the scan selects no entry, and the top-level call ends with that
\* error: after the failure no promoter and no legacy resolver is invoked,
\* no lookup is made, nothing is stored in the cache (the caller of a
\* legacy recursion at most clears a key that is not there) and no
\* ArrayMethod is returned.
C27_HierarchyErrorEndsCall ==
    IsResolve =>
        \A n \in HierarchyFailures :
            LET e == call.trace[n]
            IN  /\ SubclassTestFails(loops, e.key)
                /\ resolve_implementation_info(
                       SubSeq(loops, 1, FirstFailing(loops, e.key)),
                       e.key, FALSE, UB0).err = "HierarchyError"
                /\ e.info = NoInfo
                /\ \A m \in (n + 1)..Len(call.trace) :
                       /\ call.trace[m].ev = "setitem"
                       /\ call.trace[m].info = NoInfo
                       /\ ~call.trace[m].flag
                /\ call.method = NULL
                /\ call.info = NoInfo
                /\ call.err = "HierarchyError"

\* C27 witness: the subclass test failed in the lookup on the legacy
\* resolver's result, after the first lookup of the call had ended in a tie.
C27_Witness ==
    /\ IsResolve
    /\ \E n \in HierarchyFailures :
          /\ n > 2
          /\ call.trace[n - 1].ev = "legacy"
          /\ call.trace[1].err = "RuntimeError"
          /\ n < Len(call.trace)

\* ------------------------------------------------------------------------
\* C28: the registration order
\* ------------------------------------------------------------------------
\* The registry ls in the order given by the permutation f of its indices
Reordered(ls, f) == [i \in 1..Len(ls) |-> ls[f[i]]]

\* What a scan reports: return code, selected entry and exception
Outcome(m) == <<m.rc, m.info, m.err>>

\* C28: the matcher's outcome for the operand DTypes of a scan is the same
\* for every registration order of the registry's entries.
C28_OrderIndependent ==
    IsScan =>
        \A f \in Permutations(1..Len(loops)) :
            Outcome(resolve_implementation_info(Reordered(loops, f), call.op_dtypes,
                                                FALSE, call.ub))
                = Outcome(call)

\* ------------------------------------------------------------------------
\* C29: the cache across calls with different signatures
\* ------------------------------------------------------------------------
\* The call of the state made on an empty cache
Cold ==
    promote_and_get_ufuncimpl(loops, ufunc, call.ops, call.sig, call.ops,
                              call.flags[1], call.flags[2], call.flags[3],
                              EmptyCache, <<>>, NoErr, UB0)

\* C29: with the registry fixed, every resolve call of a sequence returns
\* the ArrayMethod, the final signature or the failure that the same call
\* returns on an empty cache; an entry the cache answers the call's first
\* lookup with is the entry a cold resolution selects.
C29_CacheTransparent ==
    IsResolve =>
        /\ call.method = Cold.method
        /\ call.err = Cold.err
        /\ call.method # NULL => call.signature = Cold.signature
        /\ (call.trace # <<>> /\ call.trace[1].ev = "hit")
              => call.trace[1].info = Cold.info

\* ------------------------------------------------------------------------
\* C30: reductions
\* ------------------------------------------------------------------------
\* C30: a resolve call with ensure_reduce_compatible set and signature slot 0
\* unset that succeeds returns an ArrayMethod whose registered DTypes have
\* the same first-input and output DType, also when it comes from the second
\* pass made after the reduce correction.
C30_ReduceCompatibleResult ==
    (Succeeded /\ call.flags[3] /\ At(call.sig, 0) = NULL)
        => At(call.info.dtypes, 0) = At(call.info.dtypes, 2)

\* ------------------------------------------------------------------------
\* C31: the cache after a failing call
\* ------------------------------------------------------------------------
\* The resolve call returned no ArrayMethod
Failed == IsResolve /\ call.method = NULL

\* C31 (as stated): a resolve call that ends in failure leaves the cache as
\* it was before the call.
C31_FailureLeavesCache ==
    Failed => cache = call.before

\* The entries the first pass of the call stored before the reduce
\* correction
FirstPassStores ==
    {n \in TraceEvents("setitem") : n \notin LastPass /\ call.trace[n].info # NoInfo}

\* C31 (amended): a resolve call that ends in failure without a second pass
\* leaves the cache as it was before the call.  When the failure happens in
\* the second pass made after the reduce correction, the failing pass
\* stores and removes nothing, every entry present before the call is kept,
\* and the cache holds in addition exactly what the first pass, which
\* succeeded, stored.
C31_FailureKeepsFirstPassOnly ==
    Failed =>
        /\ TraceEvents("reduce_fix") = {} => cache = call.before
        /\ \A n \in LastPass :
              call.trace[n].ev = "setitem"
                  => (call.trace[n].info = NoInfo /\ ~call.trace[n].flag)
        /\ \A k \in DOMAIN call.before :
              k \in DOMAIN cache /\ cache[k] = call.before[k]
        /\ \A k \in DOMAIN cache \ DOMAIN call.before :
              \E n \in FirstPassStores :
                  call.trace[n].key = k /\ call.trace[n].info = cache[k]
        /\ \A n \in FirstPassStores : call.trace[n].key \in DOMAIN cache

\* C31 witness: the first pass stored an entry, the second pass, made after
\* the reduce correction, found nothing, and the call failed with the entry
\* left in the cache.
C31_Witness ==
    /\ Failed
    /\ call.err = "NoLoopFound"
    /\ TraceEvents("reduce_fix") # {}
    /\ FirstPassStores # {}
    /\ cache # call.before
    /\ \E n \in LastPass : call.trace[n].ev = "match"

====
